---- MODULE Spec2Model ----
(***************************************************************************)
(* Worker-pool orchestration of rllib/agents/trainer.py: Trainer.train     *)
(* with its bounded retry loop, Trainer._try_recover (probe, prune,        *)
(* reset), the checkpoint protocol (save_checkpoint / load_checkpoint,     *)
(* __getstate__ / __setstate__), Trainer.evaluate over the three shapes of *)
(* the evaluation pool, and add_policy / remove_policy.  One coordinating  *)
(* thread drives the Trainer; every remote worker is an actor that handles *)
(* the requests of the coordinator in the order they were sent.            *)
(*                                                                         *)
(* Spec and FairSpec: training, recovery and checkpoints of a trainer with *)
(* the default evaluation settings.  CkptSpec: the checkpoint protocol     *)
(* over all kinds of optimizer and buffer, with files of other trainers.   *)
(* EvalSpec: evaluate() between training steps.  PolicySpec: policy map    *)
(* mutation over both pools.  MergeSpec: merge_trainer_configs over config *)
(* trees.  SetupSpec: default_resource_request against the pools setup()   *)
(* builds.  FilterSpec: train() with its filter synchronization.           *)
(* ValidateSpec: _validate_config over the multiagent policies.            *)
(* ParallelSpec: evaluation on a thread next to the training step.         *)
(* PoolSpec: every operation of the Trainer against the primary pool.      *)
(* LiveSpec: train() when every remote call comes to an end.               *)
(***************************************************************************)
EXTENDS Integers, Sequences, FiniteSets, TLC

\* ------------------------------------------------------------------------
\* Bounds of the model
\* ------------------------------------------------------------------------
MaxWorkers == 2      \* largest configured num_workers
MaxState == 1        \* worker / buffer states are 0..MaxState
MaxOps == 3          \* calls of the operations of the Trainer
MaxEpisodes == 3     \* largest configured evaluation_num_episodes
MaxOverrideKeys == 2 \* most top-level keys in one override
MaxPolicies == 2     \* most entries of config["multiagent"]["policies"]

\* trainer.py:52
MAX_WORKER_FAILURE_RETRIES == 3

States == 0..MaxState
LocalWorker == 0
RemoteIds == 1..MaxWorkers
NoBuffer == 0 - 1    \* self.local_replay_buffer is None (trainer.py:560)

VARIABLES
    config,             \* the merged trainer config (the keys used here)
    remote_workers,     \* self.workers.remote_workers(): ordered handles
    train_exec_impl,    \* worker list the execution plan was built over
    wstate,             \* state held by each worker (0 = local worker)
    mailbox,            \* per remote worker: restore requests not yet handled
    probe,              \* per remote worker, its health-check probe:
                        \*   "none" | "pending" | "ok" | "err" | "lost"
    local_replay_buffer,\* NoBuffer or the buffer's state
    iteration,          \* Trainable.iteration
    files,              \* checkpoint files: iteration -> pickled bytes
    pc,                 \* position of the coordinating thread
    result,             \* local `result` of train()
    attempt_log,        \* outcomes of the attempts of the current call
    recovers,           \* _try_recover invocations of the current call
    check_idx,          \* loop index i of the await loop of _try_recover
    healthy_workers,    \* local `healthy_workers` of _try_recover
    terminate_requested,\* workers on which __ray_terminate__ was invoked
    train_outcome,      \* how the last train() call ended
    recover_outcome,    \* how the last _try_recover() ended
    last_op,            \* last finished coordinator operation
    restored,           \* the state dict handed to the last __setstate__
    optimizer,          \* self.optimizer: its kind and its state
    warned,             \* the warning logged by the last __setstate__
    logged_once,        \* keys that log_once() has already let through
    evaluation_workers, \* self.evaluation_workers: NoPool or its remote ids
    eval_wstate,        \* state held by each worker of the evaluation pool
    eval_inflight,      \* per remote evaluation worker, its pending request
    samples,            \* sample() calls issued by the current evaluate()
    eval_round,         \* rounds finished by the current evaluate()
    eval_log,           \* steps taken by the current evaluate(), in order
    eval_outcome,       \* how the last evaluate() ended
    eval_result,        \* what the last evaluate() returned
    policy_map,         \* per worker of both pools: its policy ids
    policy_call,        \* the add_policy / remove_policy call in progress
    policy_outcome,     \* how the last add_policy / remove_policy ended
    merge_call,         \* the last merge_trainer_configs call: its arguments
    merge_result,       \* what that call returned or raised
    raw_config,         \* the config as given, before _validate_config
    resource_request,   \* what default_resource_request(raw_config) returned
    evaluation_config,  \* the config the evaluation workers were built with
    multiagent,         \* config["multiagent"]["policies"] and its validation
    parallel,           \* evaluate() on a thread next to the training step
    filter_sync,        \* FilterManager.synchronize call of the last train()
    hist                \* history: call counters and snapshots for claims

vars == <<config, remote_workers, train_exec_impl, wstate, mailbox,
          probe, local_replay_buffer, iteration, files, pc, result,
          attempt_log, recovers, check_idx, healthy_workers,
          terminate_requested, train_outcome, recover_outcome, last_op,
          restored, optimizer, warned, logged_once, evaluation_workers,
          eval_wstate, eval_inflight, samples, eval_round, eval_log,
          eval_outcome, eval_result, policy_map, policy_call,
          policy_outcome, merge_call, merge_result, raw_config,
          resource_request, evaluation_config, multiagent, parallel,
          filter_sync, hist>>

\* ------------------------------------------------------------------------
\* Helpers
\* ------------------------------------------------------------------------
Range(s) == {s[k] : k \in 1..Len(s)}

Last(s) == s[Len(s)]

\* `result = None` (trainer.py:639)
None == [attempt |-> 0, training_iteration |-> 0]

IsNone(r) == r.attempt = 0

\* The result dict of one successful Trainable.train (trainer.py:642).
StepResult(k, it) == [attempt |-> k, training_iteration |-> it]

\* ------------------------------------------------------------------------
\* Decisions of Trainer.train (trainer.py:636-665)
\* ------------------------------------------------------------------------
LoopContinues_offbyone(n) == n <= 1 + MAX_WORKER_FAILURE_RETRIES

\* for _ in range(1 + MAX_WORKER_FAILURE_RETRIES)
LoopContinues(n) == n < 1 + MAX_WORKER_FAILURE_RETRIES

IsWorkerFailure_any(exc) == exc \in {"RayError", "Exception"}

\* except RayError as e  (versus except Exception as e)
IsWorkerFailure(exc) == exc = "RayError"

ShouldRecover_always(cfg) == TRUE

ShouldRecover_never(cfg) == FALSE

\* if self.config["ignore_worker_failures"]
ShouldRecover(cfg) == cfg.ignore_worker_failures

FailedToRecover_never(r) == FALSE

SyncFiltersInRetryLoop_yes == TRUE

\* self._sync_filters_if_needed(self.workers) is called after the loop and
\* after the test of result, in no try block (trainer.py:662).
SyncFiltersInRetryLoop == FALSE

\* if result is None: raise RuntimeError(...)
FailedToRecover(r) == IsNone(r)

\* The state of the local worker after one more training step: new weights
NextWeights(s) == (s + 1) % (MaxState + 1)

\* if self.config.get("observation_filter", "NoFilter") != "NoFilter"
FiltersEnabled(cfg) == cfg.observation_filter # "NoFilter"

\* ------------------------------------------------------------------------
\* Decisions of Trainer._try_recover (trainer.py:1524-1562)
\* ------------------------------------------------------------------------
ProbeAnswered_never(w) == FALSE

ProbeAnswered_timeout(w) == probe[w] \in {"ok", "err", "lost"}

\* ray.get(obj_ref) comes back (with a value or with a RayError); it has no
\* timeout, so it waits for as long as the probe is unanswered.
ProbeAnswered(w) == probe[w] \in {"ok", "err"}

ProbeSucceeded_any(w) == TRUE

\* ray.get(obj_ref) returned a value: the except RayError branch is skipped
ProbeSucceeded(w) == probe[w] = "ok"

issue_probes_first_only(pool, probes) ==
    [w \in DOMAIN probes |->
        IF Len(pool) >= 1 /\ w = pool[1] THEN "pending" ELSE probes[w]]

\* for ev in workers.remote_workers():
\*     _, obj_ref = ev.sample_with_count.remote(); checks.append(obj_ref)
issue_probes(pool, probes) ==
    [w \in DOMAIN probes |->
        IF w \in {pool[k] : k \in 1..Len(pool)} THEN "pending"
        ELSE probes[w]]

terminate_unhealthy_skipped(w, requested) == requested

\* except RayError: w.__ray_terminate__.remote(): the worker whose probe
\* failed is asked to terminate.
terminate_unhealthy(w, requested) == requested \cup {w}

execution_plan_before_reset(pool_before, pool_after) == pool_before

\* workers.reset(healthy_workers)
\* self.train_exec_impl = self.execution_plan(workers, self.config):
\* the plan is built over the remote workers that the pool holds when
\* execution_plan is called, which is after the reset.
execution_plan(pool_before, pool_after) == pool_after

NotEnoughHealthy_never(hw) == FALSE

\* if len(healthy_workers) < 1: raise RuntimeError(...)
NotEnoughHealthy(hw) == Len(hw) < 1

reset_respawn(new_remote_workers) ==
    Append(new_remote_workers, MaxWorkers + 1)

\* WorkerSet.reset(new_remote_workers): swaps the remote-worker set
reset(new_remote_workers) == new_remote_workers

\* ------------------------------------------------------------------------
\* Checkpoint codec (trainer.py:787-798, 1609-1648)
\* ------------------------------------------------------------------------
\* RolloutWorker.save(): the worker's state as an opaque serialized blob
WorkerSave(s) == <<"worker_state", s>>

\* RolloutWorker.restore(blob): the state the blob carries
WorkerRestore(blob) == blob[2]

\* local_replay_buffer.get_state() / set_state()
BufferGetState(b) == <<"buffer_state", b>>

BufferSetState(blob) == blob[2]

KeyOrder == <<"worker", "optimizer", "local_replay_buffer">>

\* pickle.dump(state, file): the dict as a byte sequence of (key, value) items
pickle_dump(d) ==
    LET keys == SelectSeq(KeyOrder, LAMBDA k : k \in DOMAIN d)
    IN  [j \in 1..Len(keys) |-> <<keys[j], d[keys[j]]>>]

\* pickle.load(file): the dict the byte sequence encodes
pickle_load(bytes) ==
    [k \in {bytes[j][1] : j \in 1..Len(bytes)} |->
        bytes[CHOOSE j \in 1..Len(bytes) : bytes[j][1] = k][2]]

\* self.local_replay_buffer is not None and
\*     self.config.get("store_buffer_in_checkpoints")
StoresBuffer(cfg, buf) == buf # NoBuffer /\ cfg.store_buffer_in_checkpoints

\* self.optimizer.save() / self.optimizer.restore()
OptimizerSave(opt) == <<"optimizer_state", opt.state>>

OptimizerRestore(opt, blob) == [opt EXCEPT !.state = blob[2]]

HasSavableOptimizer_any(opt) == opt.kind # "none"

\* hasattr(self, "optimizer") and hasattr(self.optimizer, "save")
HasSavableOptimizer(opt) == opt.kind = "saveable"

\* Trainer.__getstate__
getstate(cfg, local, buf, opt) ==
    [k \in {"worker"} \cup
           (IF HasSavableOptimizer(opt) THEN {"optimizer"} ELSE {}) \cup
           (IF StoresBuffer(cfg, buf) THEN {"local_replay_buffer"} ELSE {}) |->
        CASE k = "worker" -> WorkerSave(local)
          [] k = "optimizer" -> OptimizerSave(opt)
          [] OTHER -> BufferGetState(buf)]

\* RolloutWorker.restore(blob) raises when the blob was saved by a worker
\* of another shape.
RestoreMismatch(blob) == blob[1] # "worker_state"

\* Whether self.workers.local_worker().restore(state["worker"]) raises
setstate_raises(state) ==
    "worker" \in DOMAIN state /\ RestoreMismatch(state["worker"])

setstate_steps_remote_first(raises) ==
    IF raises THEN <<"remote">>
    ELSE <<"remote", "local", "optimizer", "buffer">>

\* Trainer.__setstate__: the parts of the trainer it gets to, in order; the
\* restore of the local worker comes first and its exception ends the call.
setstate_steps(raises) ==
    IF raises THEN <<>>
    ELSE <<"local", "remote", "optimizer", "buffer">>

setstate_local_skipped(state, local) == local

\* Trainer.__setstate__: self.workers.local_worker().restore(state["worker"])
setstate_local(state, local) ==
    IF "worker" \in DOMAIN state THEN WorkerRestore(state["worker"]) ELSE local

setstate_remote_skipped(state, pool, mb) == mb

\* Trainer.__setstate__: for r in remote_workers: r.restore.remote(...)
\* The requests are sent and not awaited.
setstate_remote(state, pool, mb) ==
    [w \in RemoteIds |->
        IF "worker" \in DOMAIN state /\ w \in Range(pool)
        THEN Append(mb[w], state["worker"]) ELSE mb[w]]

\* Trainer.__setstate__: the replay buffer part
setstate_buffer(state, cfg, buf) ==
    IF buf # NoBuffer /\ cfg.store_buffer_in_checkpoints
       /\ "local_replay_buffer" \in DOMAIN state
    THEN BufferSetState(state["local_replay_buffer"]) ELSE buf

\* Trainer.__setstate__: the optimizer part
setstate_optimizer(state, opt) ==
    IF "optimizer" \in DOMAIN state /\ opt.kind # "none"
    THEN OptimizerRestore(opt, state["optimizer"]) ELSE opt

OnceKey == "no_store_buffer_in_checkpoints_but_data_found"

log_once_always(key, once) == TRUE

\* ray.util.debug.log_once(key): true on the first call with this key
log_once(key, once) == key \notin once

\* Trainer.__setstate__: the warning it logs, "none" if it logs none
setstate_warning(state, cfg, buf, once) ==
    IF buf = NoBuffer THEN "none"
    ELSE IF cfg.store_buffer_in_checkpoints
         THEN IF "local_replay_buffer" \in DOMAIN state THEN "none"
              ELSE "store_but_no_data"
         ELSE IF "local_replay_buffer" \in DOMAIN state
                 /\ log_once(OnceKey, once)
              THEN "no_store_but_data" ELSE "none"

\* The keys log_once() has let through after __setstate__
setstate_once(state, cfg, buf, once) ==
    IF buf # NoBuffer /\ ~cfg.store_buffer_in_checkpoints
       /\ "local_replay_buffer" \in DOMAIN state
    THEN once \cup {OnceKey} ELSE once

\* A checkpoint file that another trainer wrote.
ForeignPath == 0 - 1

\* What such a file can hold: the state of a worker of this shape or of
\* another shape, with or without optimizer state and replay data.
ForeignState(blob, keys) ==
    [k \in {"worker"} \cup keys |->
        CASE k = "worker" -> blob
          [] k = "optimizer" -> <<"optimizer_state", 0>>
          [] OTHER -> BufferGetState(0)]

ForeignStates ==
    {ForeignState(blob, keys) :
        blob \in {WorkerSave(0), <<"other_worker_state", 0>>},
        keys \in SUBSET {"optimizer", "local_replay_buffer"}}

\* ------------------------------------------------------------------------
\* Configuration trees and Trainer.merge_trainer_configs
\* (trainer.py:1344-1364)
\* ------------------------------------------------------------------------
\* A value of a config tree is a scalar, a dict of scalars, a class or a
\* function; val names a scalar, a class or a function, sub holds the
\* entries of a dict or the dict a function closes over.
NoSub == [k \in {} |-> ""]

Scalar(v) == [kind |-> "scalar", val |-> v, sub |-> NoSub]

Dict(d) == [kind |-> "dict", val |-> "", sub |-> d]

Class(name) == [kind |-> "class", val |-> name, sub |-> NoSub]

\* def make_callbacks(): return DefaultCallbacks(legacy_callbacks_dict=...)
make_callbacks(legacy_callbacks_dict) ==
    [kind |-> "function", val |-> "make_callbacks",
     sub |-> legacy_callbacks_dict]

NoTree == [k \in {} |-> Scalar("")]

\* The keys of COMMON_CONFIG that the merge rules tell apart: a scalar, the
\* exploration sub-tree and the callbacks.
COMMON_CONFIG ==
    [num_workers |-> Scalar("2"),
     exploration_config |-> Dict([type |-> "StochasticSampling"]),
     callbacks |-> Class("DefaultCallbacks")]

\* Trainer._allow_unknown_subkeys, as far as COMMON_CONFIG above goes
allow_unknown_subkeys == {"exploration_config"}

override_all_subkeys_if_type_changes_none == {}

\* Trainer._override_all_subkeys_if_type_changes
override_all_subkeys_if_type_changes == {"exploration_config"}

\* The values an override gives to a key: a scalar; an exploration
\* sub-tree of another type, of the same type with one more field, and
\* without a type; callbacks as a legacy dict and as a class; a key that
\* COMMON_CONFIG does not have.
OverrideValues(k) ==
    CASE k = "num_workers" -> {Scalar("0")}
      [] k = "exploration_config" ->
            {Dict([type |-> "EpsilonGreedy", epsilon |-> "0.1"]),
             Dict([type |-> "StochasticSampling",
                   random_timesteps |-> "100"]),
             Dict([epsilon |-> "0.5"])}
      [] k = "callbacks" ->
            {Dict([on_episode_end |-> "fn"]), Class("MyCallbacks")}
      [] k = "my_key" -> {Scalar("1")}

OverrideKeys == {"num_workers", "exploration_config", "callbacks", "my_key"}

Overrides ==
    UNION {{o \in [D -> UNION {OverrideValues(k) : k \in D}] :
               \A k \in D : o[k] \in OverrideValues(k)} :
           D \in {K \in SUBSET OverrideKeys :
                     Cardinality(K) <= MaxOverrideKeys}}

\* The raw legacy dict is never a value of the base of a merge.
IsLegacyCallbacks(config2) ==
    "callbacks" \in DOMAIN config2 /\ config2["callbacks"].kind = "dict"

wrap_legacy_callbacks_never(config2) == config2

wrap_legacy_callbacks_alone(config2) ==
    IF IsLegacyCallbacks(config2) /\ DOMAIN config2 = {"callbacks"}
    THEN [config2 EXCEPT !["callbacks"] = make_callbacks(@.sub)]
    ELSE config2

\* if "callbacks" in config2 and type(config2["callbacks"]) is dict:
\*     config2["callbacks"] = make_callbacks
wrap_legacy_callbacks(config2) ==
    IF IsLegacyCallbacks(config2)
    THEN [config2 EXCEPT !["callbacks"] = make_callbacks(@.sub)]
    ELSE config2

allow_unknown_configs_always(arg, cls_flag) == TRUE

\* if _allow_unknown_configs is None:
\*     _allow_unknown_configs = cls._allow_unknown_configs
allow_unknown_configs(arg, cls_flag) ==
    IF arg = "None" THEN cls_flag ELSE arg = "True"

\* The type of one sub-tree differs from the type of the other.
TypeChanges(old, new) ==
    /\ "type" \in DOMAIN old /\ "type" \in DOMAIN new
    /\ old["type"] # new["type"]

\* A sub-tree merged field by field; unknown fields are allowed inside.
MergeSub(old, new) ==
    [f \in DOMAIN old \cup DOMAIN new |->
        IF f \in DOMAIN new THEN new[f] ELSE old[f]]

\* What the merge leaves under key k, which the override holds.
MergedValue(k, original, new_dict, deep_keys, type_keys) ==
    IF k \in DOMAIN original /\ original[k].kind = "dict"
       /\ new_dict[k].kind = "dict"
    THEN IF k \in type_keys /\ TypeChanges(original[k].sub, new_dict[k].sub)
         THEN new_dict[k]
         ELSE IF k \in deep_keys
              THEN Dict(MergeSub(original[k].sub, new_dict[k].sub))
              ELSE new_dict[k]
    ELSE new_dict[k]

\* ray.tune.utils.deep_update(original, new_dict, new_keys_allowed,
\* allow_new_subkey_list, override_all_if_type_changes): the merged tree, or
\* the error of a top-level key that original does not have.
deep_update(original, new_dict, new_keys_allowed, deep_keys, type_keys) ==
    IF ~new_keys_allowed /\ ~(DOMAIN new_dict \subseteq DOMAIN original)
    THEN [status |-> "UnknownConfigKey", config |-> NoTree]
    ELSE [status |-> "ok",
          config |-> [k \in DOMAIN original \cup DOMAIN new_dict |->
                         IF k \in DOMAIN new_dict
                         THEN MergedValue(k, original, new_dict, deep_keys,
                                          type_keys)
                         ELSE original[k]]]

merge_trainer_configs_from_empty(config1, config2, arg, cls_flag) ==
    deep_update(NoTree, wrap_legacy_callbacks(config2),
                allow_unknown_configs(arg, cls_flag),
                allow_unknown_subkeys, override_all_subkeys_if_type_changes)

\* Trainer.merge_trainer_configs(config1, config2, _allow_unknown_configs)
merge_trainer_configs(config1, config2, arg, cls_flag) ==
    deep_update(config1, wrap_legacy_callbacks(config2),
                allow_unknown_configs(arg, cls_flag),
                allow_unknown_subkeys, override_all_subkeys_if_type_changes)

\* No merge has been called on the class: its base is COMMON_CONFIG.
MergeIdle(cls_flag) ==
    /\ merge_call = [config1 |-> COMMON_CONFIG, config2 |-> NoTree,
                     arg |-> "None", cls_flag |-> cls_flag, fn |-> "none"]
    /\ merge_result = [status |-> "none", config |-> NoTree]

\* ------------------------------------------------------------------------
\* Resources and evaluation config
\* (trainer.py:599-632, 746-778, 1506-1515)
\* ------------------------------------------------------------------------
\* A key that evaluation_config does not hold
Unset == "unset"

UnsetNumber == 0 - 1

\* The defaults of the resource, placement, batch and filter keys
\* (COMMON_CONFIG, trainer.py:98, 265, 271, 303, 353-383); the
\* evaluation_config of COMMON_CONFIG holds no key.
DefaultSetupKeys ==
    [batch_mode |-> "truncate_episodes",
     in_evaluation |-> FALSE,
     evaluation_config |-> [batch_mode |-> Unset, in_evaluation |-> Unset,
                            num_cpus_per_worker |-> UnsetNumber],
     synchronize_filters |-> TRUE,
     evaluation_parallel_to_training |-> FALSE,
     num_gpus |-> 0,
     num_cpus_per_worker |-> 1,
     num_gpus_per_worker |-> 0,
     num_cpus_for_driver |-> 1,
     placement_strategy |-> "PACK"]

\* The bundles of the evaluation workers: none unless evaluation_interval
\* is set.
EvaluationBundles(cf) ==
    IF cf.evaluation_interval # 0
    THEN [k \in 1..cf.evaluation_num_workers |->
             [CPU |-> IF cf.evaluation_config.num_cpus_per_worker
                         # UnsetNumber
                      THEN cf.evaluation_config.num_cpus_per_worker
                      ELSE cf.num_cpus_per_worker,
              GPU |-> cf.num_gpus_per_worker]]
    ELSE <<>>

\* Trainer.default_resource_request(config), cf being the config on top of
\* the defaults
default_resource_request(cf) ==
    [requested |-> TRUE,
     bundles |-> <<[CPU |-> cf.num_cpus_for_driver, GPU |-> cf.num_gpus]>>
                 \o [k \in 1..cf.num_workers |->
                        [CPU |-> cf.num_cpus_per_worker,
                         GPU |-> cf.num_gpus_per_worker]]
                 \o EvaluationBundles(cf),
     strategy |-> cf.placement_strategy]

NoRequest == [requested |-> FALSE, bundles |-> <<>>, strategy |-> ""]

\* ray.tune.utils.merge_dicts(self.config, extra_config): the keys that
\* extra_config holds replace those of the config.
merge_dicts(cfg, extra) ==
    [cfg EXCEPT !.batch_mode = IF extra.batch_mode # Unset
                               THEN extra.batch_mode ELSE @,
                !.in_evaluation = IF extra.in_evaluation # Unset
                                  THEN extra.in_evaluation = "True" ELSE @,
                !.num_cpus_per_worker =
                    IF extra.num_cpus_per_worker # UnsetNumber
                    THEN extra.num_cpus_per_worker ELSE @]

force_evaluation_mode_skipped(cfg) == cfg

\* evaluation_config.update({"batch_mode": "complete_episodes",
\*                           "in_evaluation": True})
force_evaluation_mode(cfg) ==
    [cfg EXCEPT !.batch_mode = "complete_episodes", !.in_evaluation = TRUE]

\* assert "in_evaluation" not in extra_config or
\*     extra_config["in_evaluation"] is True
SetupAsserts(cfg) ==
    cfg.evaluation_interval # 0 =>
        cfg.evaluation_config.in_evaluation \in {Unset, "True"}

\* setup(): the config the evaluation workers are built with, if there are
\* any.
make_evaluation_config(cfg) ==
    IF cfg.evaluation_interval # 0
    THEN [built |-> TRUE,
          config |-> force_evaluation_mode(
                         merge_dicts(cfg, cfg.evaluation_config))]
    ELSE [built |-> FALSE, config |-> cfg]

\* No evaluation thread runs and no training step is updating the local
\* worker.
NoParallel ==
    [step |-> "idle", thread |-> "none",
     weights |-> [state |-> 0, mid_step |-> FALSE]]

\* FilterManager.synchronize has not been called.
NoFilterSync ==
    [called |-> FALSE, update_remote |-> FALSE, remotes |-> {},
     pushed |-> {}]

\* FilterManager.synchronize(local_filters, remotes, update_remote): the
\* filters of the remotes are collected into the local ones, and the local
\* ones are pushed to every one of the remotes if update_remote is set.
FilterManager_synchronize(remotes, update_remote) ==
    [called |-> TRUE, update_remote |-> update_remote,
     remotes |-> {remotes[k] : k \in 1..Len(remotes)},
     pushed |-> IF update_remote
                THEN {remotes[k] : k \in 1..Len(remotes)} ELSE {}]

sync_filters_if_needed_always(cfg, remotes) ==
    FilterManager_synchronize(remotes, cfg.synchronize_filters)

\* Trainer._sync_filters_if_needed(workers)
sync_filters_if_needed(cfg, remotes) ==
    IF FiltersEnabled(cfg)
    THEN FilterManager_synchronize(remotes, cfg.synchronize_filters)
    ELSE NoFilterSync

\* ------------------------------------------------------------------------
\* Trainer._validate_config: the multiagent policies (trainer.py:1393-1429)
\* ------------------------------------------------------------------------
\* One entry of the policies dict: its key, whether the key is a str, what
\* the value is (a PolicySpec, a tuple, a list, or something else such as a
\* str), how many fields the value has, and what its fourth field, the
\* per-policy config, is (None, a dict, or something else such as a str).
PolicyEntry(pid, pid_is_str, kind, len, cfg) ==
    [pid |-> pid, pid_is_str |-> pid_is_str, kind |-> kind, len |-> len,
     config |-> cfg]

\* PolicySpec(): the namedtuple of four fields, all None
DefaultPolicySpec(pid) == PolicyEntry(pid, TRUE, "PolicySpec", 4, "None")

\* if not policies: policies = {DEFAULT_POLICY_ID}
\* if isinstance(policies, set): policies = {pid: PolicySpec() for pid in ..}
policies_as_dict(form, entries) ==
    IF form = "empty" THEN <<DefaultPolicySpec("default_policy")>>
    ELSE IF form = "set"
         THEN [i \in 1..Len(entries) |-> DefaultPolicySpec(entries[i].pid)]
         ELSE entries

IsFourFields_any_len(e) == e.kind \in {"list", "tuple"}

\* isinstance(policy_spec, (list, tuple)) and len(policy_spec) == 4
IsFourFields(e) == e.kind \in {"list", "tuple"} /\ e.len = 4

\* policies[pid] = PolicySpec(*policy_spec)
AsPolicySpec(e) == [e EXCEPT !.kind = "PolicySpec"]

\* The loop over policies.copy().items() from entry i on: it rewrites the
\* entries in place and raises at the first entry it rejects.
RECURSIVE validate_policies(_, _)
validate_policies(ps, i) ==
    IF i > Len(ps) THEN [status |-> "ok", policies |-> ps]
    ELSE IF ~ps[i].pid_is_str
         THEN [status |-> "ValueError", policies |-> ps]
    ELSE IF ps[i].kind # "PolicySpec" /\ ~IsFourFields(ps[i])
         THEN [status |-> "ValueError", policies |-> ps]
    ELSE LET spec == IF ps[i].kind # "PolicySpec" THEN AsPolicySpec(ps[i])
                     ELSE ps[i]
         IN  IF spec.config = "None"
             THEN validate_policies(
                     [ps EXCEPT ![i] = [spec EXCEPT !.config = "dict"]],
                     i + 1)
             ELSE IF spec.config # "dict"
                  THEN [status |-> "ValueError",
                        policies |-> [ps EXCEPT ![i] = spec]]
                  ELSE validate_policies([ps EXCEPT ![i] = spec], i + 1)

\* The multiagent policies of a Trainer that setup() has built with the
\* default config: one PolicySpec under the default policy id.
MultiagentDefault ==
    multiagent =
       [form |-> "empty", given |-> <<>>,
        policies |-> validate_policies(policies_as_dict("empty", <<>>),
                                       1).policies,
        validated |-> "ok", setup |-> TRUE]

\* ------------------------------------------------------------------------
\* Initial state: the Trainer after setup()
\* ------------------------------------------------------------------------
\* The training and checkpoint keys of the config.
TrainKeys(nw, ignore, filters, store) ==
    [num_workers : nw,
     ignore_worker_failures : ignore,
     observation_filter : filters,
     store_buffer_in_checkpoints : store]

\* The defaults of the evaluation keys (COMMON_CONFIG, trainer.py:247-288)
\* and of create_env_on_driver; 0 stands for an evaluation_interval of None.
DefaultEvalKeys ==
    [evaluation_interval |-> 0,
     evaluation_num_episodes |-> 10,
     evaluation_num_workers |-> 0,
     custom_eval_function |-> FALSE,
     create_env_on_driver |-> FALSE]

\* Trainer._validate_config: evaluation workers without an interval get
\* the interval 1.
validate_config(cfg) ==
    IF cfg.evaluation_num_workers > 0 /\ cfg.evaluation_interval = 0
    THEN [cfg EXCEPT !.evaluation_interval = 1]
    ELSE IF cfg.evaluation_num_workers = 0
            /\ cfg.evaluation_parallel_to_training
         THEN [cfg EXCEPT !.evaluation_parallel_to_training = FALSE]
         ELSE cfg

\* setup(): self.evaluation_workers is None unless evaluation_interval is
\* set; then it is a pool of evaluation_num_workers remote workers.
make_evaluation_workers(cfg) ==
    IF cfg.evaluation_interval # 0
    THEN [exists |-> TRUE,
          remote_workers |-> [k \in 1..cfg.evaluation_num_workers |-> k]]
    ELSE [exists |-> FALSE, remote_workers |-> <<>>]

\* The policy ids in use: the one of the config and one added later.
PolicyIds == {"default_policy", "new_policy"}

\* No exception, no metrics.
NoExc == [type |-> "none", msg |-> ""]

NoMetrics == [from |-> "none", is_dict |-> FALSE, size |-> 0]

\* No sample() call has been issued.
NoSamples == [plocal |-> 0, elocal |-> 0, eremote |-> [w \in RemoteIds |-> 0]]

\* What setup() builds from the config, whatever the config is.
InitRest ==
    /\ remote_workers = [k \in 1..config.num_workers |-> k]
    /\ train_exec_impl = remote_workers
    /\ wstate = [w \in {LocalWorker} \cup RemoteIds |-> 0]
    /\ mailbox = [w \in RemoteIds |-> <<>>]
    /\ probe = [w \in RemoteIds |-> "none"]
    /\ iteration = 0
    /\ files = <<>>
    /\ pc = "idle"
    /\ result = None
    /\ attempt_log = <<>>
    /\ recovers = 0
    /\ check_idx = 1
    /\ healthy_workers = <<>>
    /\ terminate_requested = {}
    /\ train_outcome = "none"
    /\ recover_outcome = "none"
    /\ last_op = "none"
    /\ restored = <<>>
    /\ warned = "none"
    /\ logged_once = {}
    /\ evaluation_workers = make_evaluation_workers(config)
    /\ eval_wstate = [w \in {LocalWorker} \cup RemoteIds |-> 0]
    /\ eval_inflight = [w \in RemoteIds |-> "none"]
    /\ samples = NoSamples
    /\ eval_round = 0
    /\ eval_log = <<>>
    /\ eval_outcome = [status |-> "none", exc |-> NoExc, cause |-> NoExc,
                       fn_result |-> NoMetrics]
    /\ eval_result = [evaluation |-> NoMetrics]
    /\ policy_map = [primary |-> [w \in {LocalWorker} \cup RemoteIds |->
                                    {"default_policy"}],
                     evaluation |-> [w \in {LocalWorker} \cup RemoteIds |->
                                       {"default_policy"}]]
    /\ policy_call = [kind |-> "none", id |-> "default_policy",
                      uniform_before |-> TRUE]
    /\ policy_outcome = "none"
    /\ resource_request = NoRequest
    /\ evaluation_config = make_evaluation_config(config)
    /\ filter_sync = NoFilterSync
    /\ parallel = NoParallel
    /\ hist = [ops |-> 0,
               pool_at_call |-> <<>>, pool_before_recover |-> <<>>,
               probe_ok |-> {}, probe_failed |-> {},
               saved_local |-> <<>>]

\* A trainer built on an execution plan (the one _try_recover asserts): it
\* holds no optimizer object.
Init ==
    /\ raw_config \in {t @@ DefaultEvalKeys @@ DefaultSetupKeys :
                          t \in TrainKeys(0..MaxWorkers, BOOLEAN,
                                          {"NoFilter", "MeanStdFilter"},
                                          BOOLEAN)}
    /\ config = validate_config(raw_config)
    /\ MergeIdle(FALSE)
    /\ MultiagentDefault
    /\ local_replay_buffer \in {NoBuffer, 0}
    /\ optimizer = [kind |-> "none", state |-> 0]
    /\ InitRest

\* The trainers whose checkpoints are compared: with and without an
\* optimizer object, with and without a replay buffer.
CkptInit ==
    /\ raw_config \in {t @@ DefaultEvalKeys @@ DefaultSetupKeys :
                          t \in TrainKeys(0..MaxWorkers, {FALSE},
                                          {"NoFilter"}, BOOLEAN)}
    /\ config = validate_config(raw_config)
    /\ MergeIdle(FALSE)
    /\ MultiagentDefault
    /\ local_replay_buffer \in {NoBuffer, 0}
    /\ optimizer \in [kind : {"none", "plain", "saveable"}, state : {0}]
    /\ InitRest

\* The trainers whose evaluate() is compared: without an evaluation pool,
\* with a local-only evaluation pool, with remote evaluation workers; with
\* and without a custom evaluation function and an env on the driver.
EvalInit ==
    /\ raw_config \in
          {t @@ e @@ DefaultSetupKeys :
              t \in TrainKeys({0, MaxWorkers}, {FALSE},
                              {"NoFilter", "MeanStdFilter"}, {FALSE}),
              e \in [evaluation_interval : {0, 1},
                     evaluation_num_episodes : 1..MaxEpisodes,
                     evaluation_num_workers : 0..MaxWorkers,
                     custom_eval_function : BOOLEAN,
                     create_env_on_driver : BOOLEAN]}
    /\ config = validate_config(raw_config)
    /\ MergeIdle(FALSE)
    /\ MultiagentDefault
    /\ local_replay_buffer = NoBuffer
    /\ optimizer = [kind |-> "none", state |-> 0]
    /\ InitRest

\* The trainers whose policy maps are compared: every shape of the primary
\* pool and of the evaluation pool.
PolicyInit ==
    /\ raw_config \in
          {t @@ e @@ DefaultSetupKeys :
              t \in TrainKeys(0..MaxWorkers, {FALSE}, {"NoFilter"}, {FALSE}),
              e \in [evaluation_interval : {0, 1},
                     evaluation_num_episodes : {10},
                     evaluation_num_workers : 0..MaxWorkers,
                     custom_eval_function : {FALSE},
                     create_env_on_driver : {FALSE}]}
    /\ config = validate_config(raw_config)
    /\ MergeIdle(FALSE)
    /\ MultiagentDefault
    /\ local_replay_buffer = NoBuffer
    /\ optimizer = [kind |-> "none", state |-> 0]
    /\ InitRest

\* Groups of variables, for the UNCHANGED clauses
poolVars == <<remote_workers, train_exec_impl, terminate_requested>>
workerVars == <<wstate, mailbox>>
ckptVars == <<local_replay_buffer, files, restored>>
recoverLocals == <<probe, check_idx, healthy_workers>>
trainLocals == <<result, attempt_log, recovers>>
outcomeVars == <<train_outcome, recover_outcome, last_op>>
ckptExtra == <<optimizer, warned, logged_once>>
evalVars == <<evaluation_workers, eval_wstate, eval_inflight, samples,
              eval_round, eval_log, eval_outcome, eval_result, parallel>>
policyVars == <<policy_map, policy_call, policy_outcome>>
mergeVars == <<merge_call, merge_result>>
setupVars == <<raw_config, resource_request, evaluation_config, multiagent>>

\* ------------------------------------------------------------------------
\* Trainer.train (trainer.py:636-665)
\* ------------------------------------------------------------------------
\* The caller invokes train(): result = None, the loop is entered.
TrainCall ==
    /\ pc = "idle"
    /\ hist.ops < MaxOps
    /\ pc' = "attempt"
    /\ result' = None
    /\ attempt_log' = <<>>
    /\ recovers' = 0
    /\ train_outcome' = "running"
    /\ recover_outcome' = "none"
    /\ hist' = [hist EXCEPT !.ops = @ + 1,
                            !.pool_at_call = remote_workers,
                            !.pool_before_recover = <<>>,
                            !.probe_ok = {}, !.probe_failed = {}]
    /\ filter_sync' = NoFilterSync
    /\ UNCHANGED <<config, iteration, last_op>>
    /\ UNCHANGED <<poolVars, workerVars, ckptVars, recoverLocals>>
    /\ UNCHANGED <<ckptExtra, evalVars, policyVars, mergeVars, setupVars>>

\* result = Trainable.train(self) succeeds: the step (algorithm code) updates
\* the local worker and the replay buffer, the iteration advances; `break`.
TrainAttemptOk ==
    /\ pc = "attempt"
    /\ wstate' = [wstate EXCEPT ![LocalWorker] = NextWeights(@)]
    /\ local_replay_buffer' =
          IF local_replay_buffer = NoBuffer THEN NoBuffer
          ELSE IF local_replay_buffer < MaxState THEN local_replay_buffer + 1
          ELSE local_replay_buffer
    /\ iteration' = iteration + 1
    /\ attempt_log' = Append(attempt_log, "ok")
    /\ result' = StepResult(Len(attempt_log) + 1, iteration + 1)
    /\ pc' = "after_loop"
    /\ optimizer' = IF optimizer.kind = "none" THEN optimizer
                    ELSE [optimizer EXCEPT !.state = NextWeights(@)]
    /\ UNCHANGED <<config, mailbox, files, restored, recovers, hist>>
    /\ UNCHANGED <<poolVars, recoverLocals, outcomeVars>>
    /\ UNCHANGED <<warned, logged_once, evalVars, policyVars, mergeVars, setupVars, filter_sync>>

\* result = Trainable.train(self) raises exc.
\*   except RayError: _try_recover() if ignore_worker_failures, else raise e
\*   except Exception: raise e
TrainAttemptFails(exc) ==
    /\ pc = "attempt"
    /\ attempt_log' = Append(attempt_log, exc)
    /\ IF IsWorkerFailure(exc) /\ ShouldRecover(config)
       THEN /\ pc' = "recover"
            /\ UNCHANGED <<train_outcome, last_op>>
       ELSE /\ pc' = "idle"
            /\ train_outcome' = exc
            /\ last_op' = "train"
    /\ UNCHANGED <<config, iteration, result, recovers, recover_outcome, hist>>
    /\ UNCHANGED <<poolVars, workerVars, ckptVars, recoverLocals>>
    /\ UNCHANGED <<ckptExtra, evalVars, policyVars, mergeVars, setupVars, filter_sync>>

\* After the loop: if result is None: raise RuntimeError.
TrainFailedToRecover ==
    /\ pc = "after_loop"
    /\ FailedToRecover(result)
    /\ pc' = "idle"
    /\ train_outcome' = "RuntimeError"
    /\ last_op' = "train"
    /\ UNCHANGED <<config, iteration, recover_outcome, hist>>
    /\ UNCHANGED <<poolVars, workerVars, ckptVars, recoverLocals, trainLocals>>
    /\ UNCHANGED <<ckptExtra, evalVars, policyVars, mergeVars, setupVars, filter_sync>>

\* _sync_filters_if_needed(self.workers); return result.  With filters on,
\* FilterManager.synchronize awaits get_filters of every remote worker of the
\* pool: each answers once it has handled the requests sent before.
TrainReturn ==
    /\ pc = "after_loop"
    /\ ~FailedToRecover(result)
    /\ FiltersEnabled(config) =>
          \A w \in Range(remote_workers) : mailbox[w] = <<>>
    /\ pc' = "idle"
    /\ train_outcome' = "returned"
    /\ last_op' = "train"
    /\ filter_sync' = sync_filters_if_needed(config, remote_workers)
    /\ UNCHANGED <<config, iteration, recover_outcome, hist>>
    /\ UNCHANGED <<poolVars, workerVars, ckptVars, recoverLocals, trainLocals>>
    /\ UNCHANGED <<ckptExtra, evalVars, policyVars, mergeVars, setupVars>>

\* _sync_filters_if_needed raises: a remote worker of the pool has died, the
\* await of its get_filters raises a RayError and the error leaves train().
TrainSyncFiltersFails ==
    /\ pc = "after_loop"
    /\ ~FailedToRecover(result)
    /\ FiltersEnabled(config)
    /\ remote_workers # <<>>
    /\ IF SyncFiltersInRetryLoop /\ ShouldRecover(config)
       THEN /\ pc' = "recover"
            /\ UNCHANGED <<train_outcome, last_op>>
       ELSE /\ pc' = "idle"
            /\ train_outcome' = "RayError"
            /\ last_op' = "train"
    /\ filter_sync' = [sync_filters_if_needed(config, remote_workers)
                          EXCEPT !.pushed = {}]
    /\ UNCHANGED <<config, iteration, recover_outcome, hist>>
    /\ UNCHANGED <<poolVars, workerVars, ckptVars, recoverLocals, trainLocals>>
    /\ UNCHANGED <<ckptExtra, evalVars, policyVars, mergeVars, setupVars>>

\* ------------------------------------------------------------------------
\* Trainer._try_recover (trainer.py:1524-1562)
\* ------------------------------------------------------------------------
\* _try_recover returns or raises: its locals (checks, healthy_workers, i)
\* go out of scope.
RecoverLocalsDropped ==
    /\ probe' = [w \in RemoteIds |-> "none"]
    /\ healthy_workers' = <<>>
    /\ check_idx' = 1

\* for ev in workers.remote_workers(): checks.append(probe request)
TryRecoverIssue ==
    /\ pc = "recover"
    /\ pc' = "recover_await"
    /\ recovers' = recovers + 1
    /\ recover_outcome' = "running"
    /\ probe' = issue_probes(remote_workers, probe)
    /\ healthy_workers' = <<>>
    /\ check_idx' = 1
    /\ hist' = [hist EXCEPT !.pool_before_recover = remote_workers,
                            !.probe_ok = {}, !.probe_failed = {}]
    /\ UNCHANGED <<config, iteration, result, attempt_log, train_outcome,
                   last_op>>
    /\ UNCHANGED <<poolVars, workerVars, ckptVars>>
    /\ UNCHANGED <<ckptExtra, evalVars, policyVars, mergeVars, setupVars, filter_sync>>

\* One round of the await loop: ray.get(obj_ref) of worker i.
\*   value    -> healthy_workers.append(w)
\*   RayError -> w.__ray_terminate__.remote() (its own failure is only logged)
TryRecoverAwait ==
    /\ pc = "recover_await"
    /\ check_idx <= Len(remote_workers)
    /\ LET w == remote_workers[check_idx] IN
        /\ ProbeAnswered(w)
        /\ IF ProbeSucceeded(w)
           THEN /\ healthy_workers' = Append(healthy_workers, w)
                /\ UNCHANGED terminate_requested
           ELSE /\ terminate_requested' =
                      terminate_unhealthy(w, terminate_requested)
                /\ UNCHANGED healthy_workers
        /\ hist' = IF probe[w] = "ok"
                   THEN [hist EXCEPT !.probe_ok = @ \cup {w}]
                   ELSE [hist EXCEPT !.probe_failed = @ \cup {w}]
    /\ check_idx' = check_idx + 1
    /\ UNCHANGED <<config, iteration, pc, probe, remote_workers,
                   train_exec_impl>>
    /\ UNCHANGED <<workerVars, ckptVars, trainLocals, outcomeVars>>
    /\ UNCHANGED <<ckptExtra, evalVars, policyVars, mergeVars, setupVars, filter_sync>>

\* if len(healthy_workers) < 1: raise RuntimeError; the error leaves the
\* except-handler of train() and so train() itself.
TryRecoverRaise ==
    /\ pc = "recover_await"
    /\ check_idx > Len(remote_workers)
    /\ NotEnoughHealthy(healthy_workers)
    /\ pc' = "idle"
    /\ recover_outcome' = "raised"
    /\ train_outcome' = "RuntimeError"
    /\ last_op' = "train"
    /\ RecoverLocalsDropped
    /\ UNCHANGED <<config, iteration, hist>>
    /\ UNCHANGED <<poolVars, workerVars, ckptVars, trainLocals>>
    /\ UNCHANGED <<ckptExtra, evalVars, policyVars, mergeVars, setupVars, filter_sync>>

\* workers.reset(healthy_workers); the execution plan is rebuilt over the
\* pool; control returns to the loop of train().
TryRecoverReset ==
    /\ pc = "recover_await"
    /\ check_idx > Len(remote_workers)
    /\ ~NotEnoughHealthy(healthy_workers)
    /\ remote_workers' = reset(healthy_workers)
    /\ train_exec_impl' = execution_plan(remote_workers, remote_workers')
    /\ recover_outcome' = "ok"
    /\ pc' = IF LoopContinues(Len(attempt_log)) THEN "attempt"
             ELSE "after_loop"
    /\ RecoverLocalsDropped
    /\ UNCHANGED <<config, iteration, terminate_requested, train_outcome,
                   last_op, hist>>
    /\ UNCHANGED <<workerVars, ckptVars, trainLocals>>
    /\ UNCHANGED <<ckptExtra, evalVars, policyVars, mergeVars, setupVars, filter_sync>>

\* ------------------------------------------------------------------------
\* Checkpoints (trainer.py:787-798)
\* ------------------------------------------------------------------------
\* save_checkpoint: pickle.dump(self.__getstate__(), checkpoint-<iteration>)
SaveCheckpoint ==
    /\ pc = "idle"
    /\ hist.ops < MaxOps
    /\ files' = (iteration :>
                    pickle_dump(getstate(config, wstate[LocalWorker],
                                         local_replay_buffer, optimizer)))
                 @@ files
    /\ last_op' = "save"
    /\ hist' = [hist EXCEPT !.ops = @ + 1,
                   !.saved_local = (iteration :> wstate[LocalWorker]) @@ @]
    /\ UNCHANGED <<config, iteration, pc, local_replay_buffer, restored,
                   train_outcome, recover_outcome>>
    /\ UNCHANGED <<poolVars, workerVars, recoverLocals, trainLocals>>
    /\ UNCHANGED <<ckptExtra, evalVars, policyVars, mergeVars, setupVars, filter_sync>>

\* Trainer.__setstate__(state), state read from the file at `path`
setstate(path, state) ==
    LET raises == setstate_raises(state)
        done == Range(setstate_steps(raises))
    IN  /\ wstate' = IF "local" \in done
                     THEN [wstate EXCEPT
                              ![LocalWorker] = setstate_local(state, @)]
                     ELSE wstate
        /\ mailbox' = IF "remote" \in done
                      THEN setstate_remote(state, remote_workers, mailbox)
                      ELSE mailbox
        /\ optimizer' = IF "optimizer" \in done
                        THEN setstate_optimizer(state, optimizer)
                        ELSE optimizer
        /\ local_replay_buffer' =
               IF "buffer" \in done
               THEN setstate_buffer(state, config, local_replay_buffer)
               ELSE local_replay_buffer
        /\ warned' =
               IF "buffer" \in done
               THEN setstate_warning(state, config, local_replay_buffer,
                                     logged_once)
               ELSE "none"
        /\ logged_once' =
               IF "buffer" \in done
               THEN setstate_once(state, config, local_replay_buffer,
                                  logged_once)
               ELSE logged_once
        /\ restored' = [path |-> path, state |-> state]
        /\ last_op' = IF raises THEN "load_failed" ELSE "load"

\* load_checkpoint(path): self.__setstate__(pickle.load(path))
LoadCheckpoint(path) ==
    /\ pc = "idle"
    /\ hist.ops < MaxOps
    /\ path \in DOMAIN files
    /\ setstate(path, pickle_load(files[path]))
    /\ hist' = [hist EXCEPT !.ops = @ + 1]
    /\ UNCHANGED <<config, iteration, pc, files, train_outcome,
                   recover_outcome>>
    /\ UNCHANGED <<poolVars, recoverLocals, trainLocals>>
    /\ UNCHANGED <<evalVars, policyVars, mergeVars, setupVars, filter_sync>>

\* load_checkpoint(path) of a file that another trainer wrote
LoadForeignCheckpoint(state) ==
    /\ pc = "idle"
    /\ hist.ops < MaxOps
    /\ setstate(ForeignPath, pickle_load(pickle_dump(state)))
    /\ hist' = [hist EXCEPT !.ops = @ + 1]
    /\ UNCHANGED <<config, iteration, pc, files, train_outcome,
                   recover_outcome>>
    /\ UNCHANGED <<poolVars, recoverLocals, trainLocals>>
    /\ UNCHANGED <<evalVars, policyVars, mergeVars, setupVars, filter_sync>>

\* ------------------------------------------------------------------------
\* Remote workers
\* ------------------------------------------------------------------------
\* The worker handles the oldest restore request in its queue.
WorkerHandleRestore(w) ==
    /\ mailbox[w] # <<>>
    /\ wstate' = [wstate EXCEPT ![w] = WorkerRestore(Head(mailbox[w]))]
    /\ mailbox' = [mailbox EXCEPT ![w] = Tail(@)]
    /\ UNCHANGED <<config, iteration, pc, hist>>
    /\ UNCHANGED <<poolVars, ckptVars, recoverLocals, trainLocals,
                   outcomeVars>>
    /\ UNCHANGED <<ckptExtra, evalVars, policyVars, mergeVars, setupVars, filter_sync>>

\* The probe (sample_with_count) of worker w gets its outcome: the worker
\* answers it after the requests that were sent before it ("ok"), the call
\* fails because the worker has died ("err"), or the worker has stopped
\* responding and the call never completes ("lost").
ProbeOutcome(w, outcome) ==
    /\ probe[w] = "pending"
    /\ outcome = "ok" => mailbox[w] = <<>>
    /\ probe' = [probe EXCEPT ![w] = outcome]
    /\ UNCHANGED <<config, iteration, pc, check_idx, healthy_workers, hist>>
    /\ UNCHANGED <<poolVars, workerVars, ckptVars, trainLocals, outcomeVars>>
    /\ UNCHANGED <<ckptExtra, evalVars, policyVars, mergeVars, setupVars, filter_sync>>

CoordinatorStep ==
    \/ TrainCall
    \/ TrainAttemptOk
    \/ \E exc \in {"RayError", "Exception"} : TrainAttemptFails(exc)
    \/ TrainFailedToRecover
    \/ TrainReturn
    \/ TrainSyncFiltersFails
    \/ TryRecoverIssue
    \/ TryRecoverAwait
    \/ TryRecoverRaise
    \/ TryRecoverReset
    \/ SaveCheckpoint
    \/ \E path \in DOMAIN files : LoadCheckpoint(path)

\* What a live, responsive worker does on its own.
WorkerStep(w) ==
    \/ WorkerHandleRestore(w)
    \/ ProbeOutcome(w, "ok")

Next ==
    \/ CoordinatorStep
    \/ \E w \in RemoteIds : WorkerStep(w)
    \/ \E w \in RemoteIds, how \in {"err", "lost"} : ProbeOutcome(w, how)

Spec == Init /\ [][Next]_vars

\* The checkpoint protocol on its own: training steps that succeed, saves,
\* and restores of the trainer's own files and of files of other trainers.
CkptNext ==
    \/ TrainCall
    \/ TrainAttemptOk
    \/ TrainReturn
    \/ SaveCheckpoint
    \/ \E path \in DOMAIN files : LoadCheckpoint(path)
    \/ \E state \in ForeignStates : LoadForeignCheckpoint(state)
    \/ \E w \in RemoteIds : WorkerHandleRestore(w)

CkptSpec == CkptInit /\ [][CkptNext]_vars

\* The coordinator and the workers keep taking the steps they can take.
FairSpec ==
    /\ Spec
    /\ WF_vars(CoordinatorStep)
    /\ \A w \in RemoteIds : WF_vars(WorkerStep(w))

\* ------------------------------------------------------------------------
\* Trainer.evaluate (trainer.py:845-924)
\* ------------------------------------------------------------------------
NoInputReaderMsg == "RolloutWorker has no input_reader object"

\* The message of the error raised at trainer.py:889-897: it names the two
\* remedies, an evaluation worker set and an env on the driver.
CannotEvaluateMsg ==
    <<"Cannot evaluate w/o an evaluation worker set in the Trainer or w/o an env on the local worker!",
      "1) Set evaluation_interval >= 0",
      "2) Set create_env_on_driver=True">>

CustomEvalMsg == "Custom eval function must return dict of metrics"

\* What sample() on a local worker can raise.
SampleErrors ==
    {[type |-> "ValueError", msg |-> NoInputReaderMsg],
     [type |-> "ValueError", msg |-> "other"],
     [type |-> "Exception", msg |-> "other"]}

\* The local worker of the primary pool has an env (trainer.py:65-69).
LocalHasEnv(cfg) == cfg.num_workers = 0 \/ cfg.create_env_on_driver

\* collect_metrics(local_worker, remote_workers)
CollectedMetrics == [from |-> "collect_metrics", is_dict |-> TRUE, size |-> 1]

\* What a custom evaluation function can return: a dict or something else,
\* empty (or None) or not.
CustomResults == [from : {"custom"}, is_dict : BOOLEAN, size : {0, 1}]

EvalFirstStage_nosync(pool) == "eval_run"

\* evaluate(): with an evaluation pool, weights and filters are synced to it
\* before anything else (trainer.py:858-864).
EvalFirstStage(pool) ==
    IF pool.exists THEN "eval_sync_weights" ELSE "eval_run"

UsesCustomEval_never(cfg) == FALSE

\* if self.config["custom_eval_function"]: (trainer.py:866)
UsesCustomEval(cfg) == cfg.custom_eval_function

CustomResultInvalid_never(metrics) == FALSE

\* if not metrics or not isinstance(metrics, dict): (trainer.py:870)
CustomResultInvalid(metrics) == metrics.size = 0 \/ ~metrics.is_dict

translate_sample_error_any(exc) ==
    IF exc.type = "ValueError"
    THEN [type |-> "ValueError", msg |-> CannotEvaluateMsg]
    ELSE exc

\* The except clause of the sampling loop on the primary local worker
\* (trainer.py:884-899).
translate_sample_error(exc) ==
    IF exc.type = "ValueError" /\ exc.msg = NoInputReaderMsg
    THEN [type |-> "ValueError", msg |-> CannotEvaluateMsg]
    ELSE exc

NumRounds_floor(episodes, workers) == episodes \div workers

\* int(math.ceil(evaluation_num_episodes / evaluation_num_workers))
NumRounds(episodes, workers) == (episodes + workers - 1) \div workers

\* The branch of evaluate() that samples on a local worker, and which one.
SamplesLocally(cfg, pool) ==
    ~pool.exists \/ cfg.evaluation_num_workers = 0

SamplingWorker_primary(pool) == "plocal"

\* self.evaluation_workers.local_worker() or self.workers.local_worker()
SamplingWorker(pool) == IF pool.exists THEN "elocal" ELSE "plocal"

\* WorkerSet.foreach_worker has the results of all the remote workers.
ForeachDone(pool, inflight) ==
    \A w \in Range(pool.remote_workers) : inflight[w] \in {"done", "failed"}

Logged(log, what) == IF what \in Range(log) THEN log ELSE Append(log, what)

nonThreadVars == <<config, remote_workers, train_exec_impl, wstate, mailbox,
                 probe, local_replay_buffer, iteration, files, result,
                 attempt_log, recovers, check_idx, healthy_workers,
                 terminate_requested, train_outcome, recover_outcome,
                 restored, optimizer, warned, logged_once,
                 evaluation_workers, policy_map, policy_call,
                 policy_outcome, mergeVars, setupVars, filter_sync>>

nonEvalVars == <<nonThreadVars, parallel>>

\* The caller invokes evaluate().
EvaluateCall ==
    /\ pc = "idle"
    /\ hist.ops < MaxOps
    /\ pc' = EvalFirstStage(evaluation_workers)
    /\ samples' = NoSamples
    /\ eval_round' = 0
    /\ eval_log' = <<>>
    /\ eval_outcome' = [status |-> "running", exc |-> NoExc, cause |-> NoExc,
                        fn_result |-> NoMetrics]
    /\ eval_result' = [evaluation |-> NoMetrics]
    /\ hist' = [hist EXCEPT !.ops = @ + 1]
    /\ UNCHANGED <<nonEvalVars, last_op, eval_wstate, eval_inflight>>

\* _sync_weights_to_workers: foreach_worker applies restore(weights) to the
\* local evaluation worker and sends it to every remote evaluation worker.
EvalSyncWeightsIssue ==
    /\ pc = "eval_sync_weights"
    /\ eval_wstate' = [eval_wstate EXCEPT ![LocalWorker] =
                          WorkerRestore(WorkerSave(wstate[LocalWorker]))]
    /\ eval_inflight' =
          [w \in RemoteIds |->
              IF w \in Range(evaluation_workers.remote_workers)
              THEN "restore" ELSE eval_inflight[w]]
    /\ pc' = "eval_sync_weights_await"
    /\ UNCHANGED <<nonEvalVars, last_op, hist, samples, eval_round, eval_log,
                   eval_outcome, eval_result>>

\* foreach_worker returns when every remote evaluation worker has answered.
EvalSyncWeightsAwait ==
    /\ pc = "eval_sync_weights_await"
    /\ ForeachDone(evaluation_workers, eval_inflight)
    /\ eval_inflight' = [w \in RemoteIds |-> "none"]
    /\ eval_log' = Logged(eval_log, "weights")
    /\ pc' = "eval_sync_filters"
    /\ UNCHANGED <<nonEvalVars, last_op, hist, samples, eval_round,
                   eval_wstate, eval_outcome, eval_result>>

\* self._sync_filters_if_needed(self.evaluation_workers)
EvalSyncFilters ==
    /\ pc = "eval_sync_filters"
    /\ eval_log' = IF FiltersEnabled(config) THEN Logged(eval_log, "filters")
                   ELSE eval_log
    /\ pc' = "eval_run"
    /\ UNCHANGED <<nonEvalVars, last_op, hist, samples, eval_round,
                   eval_wstate, eval_inflight, eval_outcome, eval_result>>

\* evaluate() ends: it returns {"evaluation": metrics} or raises exc.  The
\* outcome also keeps what the call made inside evaluate() raised (cause)
\* and what the custom evaluation function returned (fn_result).
EvalEnds(metrics, exc, cause, fn_result) ==
    /\ pc' = "idle"
    /\ last_op' = "evaluate"
    /\ eval_result' = [evaluation |-> metrics]
    /\ eval_outcome' = [status |-> IF exc = NoExc THEN "returned"
                                  ELSE "raised",
                        exc |-> exc, cause |-> cause,
                        fn_result |-> fn_result]
    /\ eval_inflight' = [w \in RemoteIds |-> "none"]
    /\ UNCHANGED <<nonEvalVars, hist, eval_wstate>>

\* metrics = custom_eval_function(self, self.evaluation_workers)
EvalCustom(metrics) ==
    /\ pc = "eval_run"
    /\ UsesCustomEval(config)
    /\ eval_log' = Logged(eval_log, "custom")
    /\ IF CustomResultInvalid(metrics)
       THEN EvalEnds(NoMetrics,
                     [type |-> "ValueError", msg |-> CustomEvalMsg],
                     NoExc, metrics)
       ELSE EvalEnds(metrics, NoExc, NoExc, metrics)
    /\ UNCHANGED <<samples, eval_round>>

\* One sample() call of the loop on a local worker returns.
EvalSampleLocal ==
    /\ pc = "eval_run"
    /\ ~UsesCustomEval(config)
    /\ SamplesLocally(config, evaluation_workers)
    /\ samples[SamplingWorker(evaluation_workers)] <
          config.evaluation_num_episodes
    /\ evaluation_workers.exists \/ LocalHasEnv(config)
    /\ samples' = [samples EXCEPT ![SamplingWorker(evaluation_workers)] = @ + 1]
    /\ eval_log' = Logged(eval_log, "sample")
    /\ UNCHANGED <<nonEvalVars, last_op, hist, pc, eval_round, eval_wstate,
                   eval_inflight, eval_outcome, eval_result>>

\* One sample() call of the loop on a local worker raises exc; a worker
\* without env raises the ValueError about its input_reader.
EvalSampleLocalFails(exc) ==
    /\ pc = "eval_run"
    /\ ~UsesCustomEval(config)
    /\ SamplesLocally(config, evaluation_workers)
    /\ samples[SamplingWorker(evaluation_workers)] <
          config.evaluation_num_episodes
    /\ exc.msg = NoInputReaderMsg <=>
          (~evaluation_workers.exists /\ ~LocalHasEnv(config))
    /\ samples' = [samples EXCEPT ![SamplingWorker(evaluation_workers)] = @ + 1]
    /\ eval_log' = Logged(eval_log, "sample")
    /\ EvalEnds(NoMetrics,
                IF evaluation_workers.exists THEN exc
                ELSE translate_sample_error(exc),
                exc, NoMetrics)
    /\ UNCHANGED eval_round

\* The sampling loop on a local worker is through: collect_metrics.
EvalLocalDone ==
    /\ pc = "eval_run"
    /\ ~UsesCustomEval(config)
    /\ SamplesLocally(config, evaluation_workers)
    /\ samples[SamplingWorker(evaluation_workers)] =
          config.evaluation_num_episodes
    /\ EvalEnds(CollectedMetrics, NoExc, NoExc, NoMetrics)
    /\ UNCHANGED <<samples, eval_round, eval_log>>

\* One round: w.sample.remote() for every remote evaluation worker.
EvalRoundIssue ==
    /\ pc = "eval_run"
    /\ ~UsesCustomEval(config)
    /\ ~SamplesLocally(config, evaluation_workers)
    /\ eval_round < NumRounds(config.evaluation_num_episodes,
                              config.evaluation_num_workers)
    /\ samples' = [samples EXCEPT !.eremote =
                      [w \in RemoteIds |->
                          IF w \in Range(evaluation_workers.remote_workers)
                          THEN @[w] + 1 ELSE @[w]]]
    /\ eval_inflight' =
          [w \in RemoteIds |->
              IF w \in Range(evaluation_workers.remote_workers)
              THEN "sample" ELSE eval_inflight[w]]
    /\ eval_log' = Logged(eval_log, "sample")
    /\ pc' = "eval_round_await"
    /\ UNCHANGED <<nonEvalVars, last_op, hist, eval_round, eval_wstate,
                   eval_outcome, eval_result>>

\* ray.get of the round returns: every call of the round has completed.
EvalRoundAwait ==
    /\ pc = "eval_round_await"
    /\ ForeachDone(evaluation_workers, eval_inflight)
    /\ \A w \in RemoteIds : eval_inflight[w] # "failed"
    /\ eval_round' = eval_round + 1
    /\ eval_inflight' = [w \in RemoteIds |-> "none"]
    /\ pc' = "eval_run"
    /\ UNCHANGED <<nonEvalVars, last_op, hist, samples, eval_log, eval_wstate,
                   eval_outcome, eval_result>>

\* ray.get of the round raises: a call of the round has failed.
EvalRoundRaises ==
    /\ pc = "eval_round_await"
    /\ ForeachDone(evaluation_workers, eval_inflight)
    /\ \E w \in RemoteIds : eval_inflight[w] = "failed"
    /\ EvalEnds(NoMetrics, [type |-> "RayError", msg |-> "other"],
                [type |-> "RayError", msg |-> "other"], NoMetrics)
    /\ UNCHANGED <<samples, eval_round, eval_log>>

\* All rounds are through: collect_metrics.
EvalRoundsDone ==
    /\ pc = "eval_run"
    /\ ~UsesCustomEval(config)
    /\ ~SamplesLocally(config, evaluation_workers)
    /\ eval_round = NumRounds(config.evaluation_num_episodes,
                              config.evaluation_num_workers)
    /\ EvalEnds(CollectedMetrics, NoExc, NoExc, NoMetrics)
    /\ UNCHANGED <<samples, eval_round, eval_log>>

\* A remote evaluation worker handles restore(weights).
EvalWorkerRestore(w) ==
    /\ eval_inflight[w] = "restore"
    /\ eval_wstate' = [eval_wstate EXCEPT ![w] =
                          WorkerRestore(WorkerSave(wstate[LocalWorker]))]
    /\ eval_inflight' = [eval_inflight EXCEPT ![w] = "done"]
    /\ UNCHANGED <<nonEvalVars, last_op, hist, pc, samples, eval_round,
                   eval_log, eval_outcome, eval_result>>

\* A remote evaluation worker handles sample(): it returns or it fails.
EvalWorkerSample(w, how) ==
    /\ eval_inflight[w] = "sample"
    /\ eval_inflight' = [eval_inflight EXCEPT ![w] = how]
    /\ UNCHANGED <<nonEvalVars, last_op, hist, pc, samples, eval_round,
                   eval_log, eval_wstate, eval_outcome, eval_result>>

EvaluateStep ==
    \/ EvaluateCall
    \/ EvalSyncWeightsIssue
    \/ EvalSyncWeightsAwait
    \/ EvalSyncFilters
    \/ \E metrics \in CustomResults : EvalCustom(metrics)
    \/ EvalSampleLocal
    \/ \E exc \in SampleErrors : EvalSampleLocalFails(exc)
    \/ EvalLocalDone
    \/ EvalRoundIssue
    \/ EvalRoundAwait
    \/ EvalRoundRaises
    \/ EvalRoundsDone

\* evaluate() between training steps that succeed.
EvalNext ==
    \/ TrainCall
    \/ TrainAttemptOk
    \/ TrainReturn
    \/ EvaluateStep
    \/ \E w \in RemoteIds : EvalWorkerRestore(w)
    \/ \E w \in RemoteIds, how \in {"done", "failed"} : EvalWorkerSample(w, how)

EvalSpec == EvalInit /\ [][EvalNext]_vars

\* ------------------------------------------------------------------------
\* Trainer.add_policy / Trainer.remove_policy (trainer.py:1169-1261)
\* ------------------------------------------------------------------------
\* RolloutWorker.add_policy raises on an id the worker has, and
\* RolloutWorker.remove_policy on an id the worker does not have.
WorkerPolicyRaises(call, ids) ==
    IF call.kind = "add_policy" THEN call.id \in ids ELSE call.id \notin ids

\* The policy ids of a worker after fn(worker)
WorkerPolicyApply(call, ids) ==
    IF call.kind = "add_policy" THEN ids \cup {call.id} ELSE ids \ {call.id}

\* WorkerSet.foreach_worker(fn) raises: fn raises on the local worker, or on
\* a remote worker, or the call to a remote worker fails (`failing`).
foreach_worker_raises(call, pmap, remote, failing) ==
    \/ WorkerPolicyRaises(call, pmap[LocalWorker])
    \/ \E w \in Range(remote) :
          w \in failing \/ WorkerPolicyRaises(call, pmap[w])

\* WorkerSet.foreach_worker(fn): fn runs on the local worker first; if it
\* returns, fn is sent to all the remote workers and runs on each of them
\* whose call does not fail.
foreach_worker(call, pmap, remote, failing) ==
    IF WorkerPolicyRaises(call, pmap[LocalWorker]) THEN pmap
    ELSE [w \in DOMAIN pmap |->
             IF w = LocalWorker
                \/ (w \in Range(remote) /\ w \notin failing
                    /\ ~WorkerPolicyRaises(call, pmap[w]))
             THEN WorkerPolicyApply(call, pmap[w])
             ELSE pmap[w]]

broadcast_raised_rollback(before, after) == before

\* add_policy / remove_policy have no except clause around foreach_worker:
\* when it raises, the policy maps stay as the broadcast left them.
broadcast_raised(before, after) == after

\* The policy maps of a pool after self.<pool>.foreach_worker(fn)
policy_broadcast(call, pmap, remote, failing) ==
    IF foreach_worker_raises(call, pmap, remote, failing)
    THEN broadcast_raised(pmap, foreach_worker(call, pmap, remote, failing))
    ELSE foreach_worker(call, pmap, remote, failing)

AfterPrimaryBroadcast_only(pool) == "idle"

\* if self.evaluation_workers is not None:
\*     self.evaluation_workers.foreach_worker(fn)
AfterPrimaryBroadcast(pool) ==
    IF pool.exists THEN "policy_evaluation" ELSE "idle"

nonPolicyVars == <<config, remote_workers, train_exec_impl, wstate, mailbox,
                   probe, local_replay_buffer, iteration, files, result,
                   attempt_log, recovers, check_idx, healthy_workers,
                   terminate_requested, train_outcome, recover_outcome,
                   restored, optimizer, warned, logged_once, evalVars,
                   mergeVars, setupVars, filter_sync>>

\* All workers of both pools hold the same policy ids.
PolicyMapsUniform ==
    \A w \in {LocalWorker} \cup Range(remote_workers),
       v \in {LocalWorker} \cup
             (IF evaluation_workers.exists
              THEN Range(evaluation_workers.remote_workers) ELSE {}) :
        /\ policy_map.primary[w] = policy_map.primary[LocalWorker]
        /\ evaluation_workers.exists =>
              policy_map.evaluation[v] = policy_map.primary[LocalWorker]

\* The caller invokes add_policy(id) or remove_policy(id).
PolicyCall(kind, id) ==
    /\ pc = "idle"
    /\ hist.ops < MaxOps
    /\ policy_call' = [kind |-> kind, id |-> id,
                       uniform_before |-> PolicyMapsUniform]
    /\ policy_outcome' = "running"
    /\ pc' = "policy_primary"
    /\ hist' = [hist EXCEPT !.ops = @ + 1]
    /\ UNCHANGED <<nonPolicyVars, last_op, policy_map>>

\* self.workers.foreach_worker(fn)
PolicyBroadcastPrimary(failing) ==
    /\ pc = "policy_primary"
    /\ failing \subseteq Range(remote_workers)
    /\ policy_map' = [policy_map EXCEPT !.primary =
                         policy_broadcast(policy_call, @, remote_workers,
                                          failing)]
    /\ IF foreach_worker_raises(policy_call, policy_map.primary,
                                remote_workers, failing)
       THEN /\ pc' = "idle"
            /\ policy_outcome' = "raised"
            /\ last_op' = policy_call.kind
       ELSE /\ pc' = AfterPrimaryBroadcast(evaluation_workers)
            /\ policy_outcome' = IF pc' = "idle" THEN "ok" ELSE policy_outcome
            /\ last_op' = IF pc' = "idle" THEN policy_call.kind ELSE last_op
    /\ UNCHANGED <<nonPolicyVars, hist, policy_call>>

\* self.evaluation_workers.foreach_worker(fn)
PolicyBroadcastEvaluation(failing) ==
    /\ pc = "policy_evaluation"
    /\ failing \subseteq Range(evaluation_workers.remote_workers)
    /\ policy_map' = [policy_map EXCEPT !.evaluation =
                         policy_broadcast(policy_call, @,
                                          evaluation_workers.remote_workers,
                                          failing)]
    /\ policy_outcome' =
          IF foreach_worker_raises(policy_call, policy_map.evaluation,
                                   evaluation_workers.remote_workers, failing)
          THEN "raised" ELSE "ok"
    /\ pc' = "idle"
    /\ last_op' = policy_call.kind
    /\ UNCHANGED <<nonPolicyVars, hist, policy_call>>

PolicyNext ==
    \/ \E kind \in {"add_policy", "remove_policy"}, id \in PolicyIds :
          PolicyCall(kind, id)
    \/ \E failing \in SUBSET RemoteIds : PolicyBroadcastPrimary(failing)
    \/ \E failing \in SUBSET RemoteIds : PolicyBroadcastEvaluation(failing)

PolicySpec == PolicyInit /\ [][PolicyNext]_vars

TypeOK ==
    /\ Range(remote_workers) \subseteq RemoteIds
    /\ pc \in {"idle", "attempt", "recover", "recover_await", "after_loop",
              "eval_sync_weights", "eval_sync_weights_await",
              "eval_sync_filters", "eval_run", "eval_round_await",
              "policy_primary", "policy_evaluation"}
    /\ wstate \in [{LocalWorker} \cup RemoteIds -> States]

\* ------------------------------------------------------------------------
\* Calls of merge_trainer_configs (trainer.py:485-500, 705-706, 1344-1364)
\* ------------------------------------------------------------------------
nonMergeVars == <<config, remote_workers, train_exec_impl, wstate, mailbox,
                  probe, local_replay_buffer, iteration, files, pc, result,
                  attempt_log, recovers, check_idx, healthy_workers,
                  terminate_requested, train_outcome, recover_outcome,
                  last_op, restored, optimizer, warned, logged_once,
                  evalVars, policyVars, setupVars, filter_sync, hist>>

\* The config that the next merge starts from: the last merged config, or
\* the base of the last call if that call raised.
CurrentTree ==
    IF merge_result.status = "ok" THEN merge_result.config
    ELSE merge_call.config1

\* cls.merge_trainer_configs(current, config2, arg): Trainer.setup calls it
\* with arg = cls._allow_unknown_configs, other callers with None, True or
\* False.
MergeTrainerConfigs(config2, arg) ==
    /\ merge_call' = [config1 |-> CurrentTree, config2 |-> config2,
                      arg |-> arg, cls_flag |-> merge_call.cls_flag,
                      fn |-> "merge_trainer_configs"]
    /\ merge_result' = merge_trainer_configs(CurrentTree, config2, arg,
                                             merge_call.cls_flag)
    /\ UNCHANGED nonMergeVars

\* with_common_config(extra_config): merge_trainer_configs(COMMON_CONFIG,
\* extra_config, _allow_unknown_configs=True)
WithCommonConfig(extra_config) ==
    /\ merge_call' = [config1 |-> COMMON_CONFIG, config2 |-> extra_config,
                      arg |-> "True", cls_flag |-> merge_call.cls_flag,
                      fn |-> "with_common_config"]
    /\ merge_result' = merge_trainer_configs(COMMON_CONFIG, extra_config,
                                             "True", merge_call.cls_flag)
    /\ UNCHANGED nonMergeVars

\* The configs that are merged: a Trainer class that rejects unknown keys
\* (the default) or allows them, before its first merge.
MergeInit ==
    /\ raw_config = [num_workers |-> 0, ignore_worker_failures |-> FALSE,
                     observation_filter |-> "NoFilter",
                     store_buffer_in_checkpoints |-> FALSE]
                    @@ DefaultEvalKeys @@ DefaultSetupKeys
    /\ config = validate_config(raw_config)
    /\ \E cls_flag \in BOOLEAN : MergeIdle(cls_flag)
    /\ MultiagentDefault
    /\ local_replay_buffer = NoBuffer
    /\ optimizer = [kind |-> "none", state |-> 0]
    /\ InitRest

MergeNext ==
    \/ \E config2 \in Overrides, arg \in {"None", "True", "False"} :
          MergeTrainerConfigs(config2, arg)
    \/ \E extra_config \in Overrides : WithCommonConfig(extra_config)

MergeSpec == MergeInit /\ [][MergeNext]_vars

\* ------------------------------------------------------------------------
\* Trainer.default_resource_request (trainer.py:599-632)
\* ------------------------------------------------------------------------
\* Tune asks the class for the resources of a trial with the config as
\* given: _validate_config has not changed it.
DefaultResourceRequest ==
    /\ ~resource_request.requested
    /\ resource_request' = default_resource_request(raw_config)
    /\ UNCHANGED <<raw_config, evaluation_config, multiagent, mergeVars,
                   filter_sync>>
    /\ UNCHANGED <<config, iteration, pc, hist>>
    /\ UNCHANGED <<poolVars, workerVars, ckptVars, recoverLocals>>
    /\ UNCHANGED <<trainLocals, outcomeVars, ckptExtra, evalVars, policyVars>>

\* The configs whose resources and evaluation pools are compared: every
\* shape of the two pools, with and without an evaluation interval, and
\* every batch mode, in_evaluation flag and CPU count that
\* evaluation_config can ask for; setup() raises on the others.
SetupInit ==
    /\ raw_config \in
          {r \in
             {t @@ e @@ s @@ DefaultSetupKeys :
                t \in TrainKeys(0..MaxWorkers, {FALSE}, {"NoFilter"},
                                {FALSE}),
                e \in [evaluation_interval : {0, 1},
                       evaluation_num_episodes : {10},
                       evaluation_num_workers : 0..MaxWorkers,
                       custom_eval_function : {FALSE},
                       create_env_on_driver : {FALSE}],
                s \in [batch_mode : {"truncate_episodes",
                                     "complete_episodes"},
                       evaluation_config :
                          [batch_mode : {Unset, "truncate_episodes",
                                         "complete_episodes"},
                           in_evaluation : {Unset, "True", "False"},
                           num_cpus_per_worker : {UnsetNumber, 2}],
                       placement_strategy : {"PACK", "SPREAD"}]} :
             SetupAsserts(validate_config(r))}
    /\ config = validate_config(raw_config)
    /\ MergeIdle(FALSE)
    /\ MultiagentDefault
    /\ local_replay_buffer = NoBuffer
    /\ optimizer = [kind |-> "none", state |-> 0]
    /\ InitRest

SetupNext == DefaultResourceRequest

SetupSpec == SetupInit /\ [][SetupNext]_vars

\* ------------------------------------------------------------------------
\* train() and its filter synchronization on their own
\* (trainer.py:636-674)
\* ------------------------------------------------------------------------
\* The trainers whose filter synchronization is compared: with and without
\* observation filters, with synchronize_filters set and unset.
FilterInit ==
    /\ raw_config \in
          {t @@ DefaultEvalKeys @@ s @@ DefaultSetupKeys :
              t \in TrainKeys(0..MaxWorkers, BOOLEAN,
                              {"NoFilter", "MeanStdFilter"}, {FALSE}),
              s \in [synchronize_filters : BOOLEAN]}
    /\ config = validate_config(raw_config)
    /\ MergeIdle(FALSE)
    /\ MultiagentDefault
    /\ local_replay_buffer = NoBuffer
    /\ optimizer = [kind |-> "none", state |-> 0]
    /\ InitRest

FilterNext ==
    \/ TrainCall
    \/ TrainAttemptOk
    \/ \E exc \in {"RayError", "Exception"} : TrainAttemptFails(exc)
    \/ TrainFailedToRecover
    \/ TrainReturn
    \/ TrainSyncFiltersFails
    \/ TryRecoverIssue
    \/ TryRecoverAwait
    \/ TryRecoverRaise
    \/ TryRecoverReset
    \/ \E w \in RemoteIds, how \in {"ok", "err", "lost"} : ProbeOutcome(w, how)

FilterSpec == FilterInit /\ [][FilterNext]_vars

\* ------------------------------------------------------------------------
\* setup() up to _validate_config (trainer.py:684-730, 1393-1429)
\* ------------------------------------------------------------------------
\* self._validate_config(self.config, trainer_obj_or_none=self)
ValidateConfig ==
    /\ multiagent.validated = "none"
    /\ LET res == validate_policies(
                     policies_as_dict(multiagent.form, multiagent.given), 1)
       IN  multiagent' = [multiagent EXCEPT !.policies = res.policies,
                                            !.validated = res.status]
    /\ UNCHANGED <<raw_config, resource_request, evaluation_config,
                   mergeVars, filter_sync>>
    /\ UNCHANGED <<config, iteration, pc, hist>>
    /\ UNCHANGED <<poolVars, workerVars, ckptVars, recoverLocals>>
    /\ UNCHANGED <<trainLocals, outcomeVars, ckptExtra, evalVars, policyVars>>

\* The rest of setup(): _validate_config has returned.
SetupCompletes ==
    /\ multiagent.validated = "ok"
    /\ ~multiagent.setup
    /\ multiagent' = [multiagent EXCEPT !.setup = TRUE]
    /\ UNCHANGED <<raw_config, resource_request, evaluation_config,
                   mergeVars, filter_sync>>
    /\ UNCHANGED <<config, iteration, pc, hist>>
    /\ UNCHANGED <<poolVars, workerVars, ckptVars, recoverLocals>>
    /\ UNCHANGED <<trainLocals, outcomeVars, ckptExtra, evalVars, policyVars>>

\* The values a policies dict can hold under one key.
PolicyValues ==
    {[kind |-> "PolicySpec", len |-> 4, config |-> c] :
        c \in {"None", "dict", "str"}}
    \cup {[kind |-> k, len |-> 4, config |-> c] :
             k \in {"tuple", "list"}, c \in {"None", "dict", "str"}}
    \cup {[kind |-> k, len |-> n, config |-> "None"] :
             k \in {"tuple", "list"}, n \in {3, 5}}
    \cup {[kind |-> "str", len |-> 4, config |-> "None"]}

\* The keys of a policies dict: policy ids, and a key that is not a str.
PolicyKeys ==
    {[pid |-> p, pid_is_str |-> TRUE] : p \in PolicyIds \cup {"third_policy"}}
    \cup {[pid |-> "1", pid_is_str |-> FALSE]}

\* The policies dicts of at most MaxPolicies entries, in insertion order.
PolicyDicts ==
    UNION {{ps \in [1..n -> {k @@ v : k \in PolicyKeys, v \in PolicyValues}] :
               \A i, j \in 1..n : i # j => ps[i].pid # ps[j].pid} :
           n \in 1..MaxPolicies}

\* The sets of policy ids.
PolicySets ==
    UNION {{ps \in [1..n -> {DefaultPolicySpec(p) : p \in PolicyIds}] :
               \A i, j \in 1..n : i < j => ps[i].pid # ps[j].pid} :
           n \in 1..MaxPolicies}

\* The multiagent policies that setup() is given: none, a set of policy
\* ids, a dict of policy specs.
ValidateInit ==
    /\ raw_config = [num_workers |-> 0, ignore_worker_failures |-> FALSE,
                     observation_filter |-> "NoFilter",
                     store_buffer_in_checkpoints |-> FALSE]
                    @@ DefaultEvalKeys @@ DefaultSetupKeys
    /\ config = validate_config(raw_config)
    /\ MergeIdle(FALSE)
    /\ \E form \in {"empty", "set", "dict"} :
          \E given \in (IF form = "empty" THEN {<<>>}
                        ELSE IF form = "set" THEN PolicySets
                        ELSE PolicyDicts) :
             multiagent = [form |-> form, given |-> given,
                           policies |-> given,
                           validated |-> "none", setup |-> FALSE]
    /\ local_replay_buffer = NoBuffer
    /\ optimizer = [kind |-> "none", state |-> 0]
    /\ InitRest

ValidateNext ==
    \/ ValidateConfig
    \/ SetupCompletes

ValidateSpec == ValidateInit /\ [][ValidateNext]_vars

\* ------------------------------------------------------------------------
\* evaluation_parallel_to_training (trainer.py:257-263, 845-866, 931-943)
\* ------------------------------------------------------------------------
\* The step of an iteration that evaluates starts evaluate() on a thread and
\* then runs the training step; it returns when both have ended.
ParallelLaunch ==
    /\ pc = "attempt"
    /\ config.evaluation_parallel_to_training
    /\ evaluation_workers.exists
    /\ parallel.step = "idle" /\ parallel.thread = "none"
    /\ parallel' = [parallel EXCEPT !.step = "launched",
                                    !.thread = "started"]
    /\ UNCHANGED <<nonThreadVars, last_op, hist, pc, evaluation_workers,
                   eval_wstate, eval_inflight, samples, eval_round, eval_log,
                   eval_outcome, eval_result>>

\* The training step starts to update the weights of the local worker.
ParallelStepBegins ==
    /\ parallel.step = "launched"
    /\ parallel' = [parallel EXCEPT !.step = "updating"]
    /\ UNCHANGED <<nonThreadVars, last_op, hist, pc, evaluation_workers,
                   eval_wstate, eval_inflight, samples, eval_round, eval_log,
                   eval_outcome, eval_result>>

\* The training step has updated the local worker, the replay buffer and
\* the optimizer.
ParallelStepEnds ==
    /\ parallel.step = "updating"
    /\ parallel' = [parallel EXCEPT !.step = "updated"]
    /\ wstate' = [wstate EXCEPT ![LocalWorker] = NextWeights(@)]
    /\ local_replay_buffer' =
          IF local_replay_buffer = NoBuffer THEN NoBuffer
          ELSE IF local_replay_buffer < MaxState THEN local_replay_buffer + 1
          ELSE local_replay_buffer
    /\ optimizer' = IF optimizer.kind = "none" THEN optimizer
                    ELSE [optimizer EXCEPT !.state = NextWeights(@)]
    /\ UNCHANGED <<config, mailbox, files, restored, iteration, pc, hist>>
    /\ UNCHANGED <<poolVars, recoverLocals, trainLocals, outcomeVars>>
    /\ UNCHANGED <<warned, logged_once, policyVars, mergeVars, setupVars,
                   filter_sync>>
    /\ UNCHANGED <<evaluation_workers, eval_wstate, eval_inflight, samples,
                   eval_round, eval_log, eval_outcome, eval_result>>

\* weights = ray.put(self.workers.local_worker().save()), on the evaluation
\* thread: nothing orders this read with the training step on the main
\* thread, so while the step is updating the local worker the read may see
\* the weights of the last step or weights that the step has partly
\* written.
ParallelEvalSave ==
    /\ parallel.thread = "started"
    /\ \E mid_step \in (IF parallel.step = "updating" THEN BOOLEAN
                        ELSE {FALSE}) :
          parallel' = [parallel EXCEPT
                          !.thread = "saved",
                          !.weights = [state |-> WorkerSave(wstate[LocalWorker]),
                                       mid_step |-> mid_step]]
    /\ UNCHANGED <<nonThreadVars, last_op, hist, pc, evaluation_workers,
                   eval_wstate, eval_inflight, samples, eval_round, eval_log,
                   eval_outcome, eval_result>>

\* worker_set.foreach_worker(lambda w: w.restore(ray.get(weights)))
ParallelEvalBroadcast ==
    /\ parallel.thread = "saved"
    /\ parallel' = [parallel EXCEPT !.thread = "synced"]
    /\ eval_wstate' =
          [w \in {LocalWorker} \cup RemoteIds |->
              IF w \in {LocalWorker}
                       \cup Range(evaluation_workers.remote_workers)
              THEN WorkerRestore(parallel.weights.state)
              ELSE eval_wstate[w]]
    /\ UNCHANGED <<nonThreadVars, last_op, hist, pc, evaluation_workers,
                   eval_inflight, samples, eval_round, eval_log,
                   eval_outcome, eval_result>>

\* The evaluation rounds: the workers of the evaluation pool sample with
\* the weights they were sent.
ParallelEvalSample ==
    /\ parallel.thread = "synced"
    /\ parallel' = [parallel EXCEPT !.thread = "sampled"]
    /\ UNCHANGED <<nonThreadVars, last_op, hist, pc, evaluation_workers,
                   eval_wstate, eval_inflight, samples, eval_round, eval_log,
                   eval_outcome, eval_result>>

\* Both the training step and the evaluation thread have ended:
\* Trainable.train returns the result of the iteration; break.
ParallelJoin ==
    /\ pc = "attempt"
    /\ parallel.step = "updated" /\ parallel.thread = "sampled"
    /\ parallel' = [parallel EXCEPT !.step = "idle", !.thread = "none"]
    /\ iteration' = iteration + 1
    /\ attempt_log' = Append(attempt_log, "ok")
    /\ result' = StepResult(Len(attempt_log) + 1, iteration + 1)
    /\ pc' = "after_loop"
    /\ UNCHANGED <<config, mailbox, files, restored, recovers, hist, wstate,
                   local_replay_buffer, optimizer>>
    /\ UNCHANGED <<poolVars, recoverLocals, outcomeVars>>
    /\ UNCHANGED <<warned, logged_once, policyVars, mergeVars, setupVars,
                   filter_sync>>
    /\ UNCHANGED <<evaluation_workers, eval_wstate, eval_inflight, samples,
                   eval_round, eval_log, eval_outcome, eval_result>>

\* The trainers that evaluate parallel to training: every shape of the two
\* pools that keeps evaluation_parallel_to_training set.
ParallelInit ==
    /\ raw_config \in
          {t @@ e @@ s @@ DefaultSetupKeys :
              t \in TrainKeys(0..MaxWorkers, {FALSE}, {"NoFilter"}, {FALSE}),
              e \in [evaluation_interval : {1},
                     evaluation_num_episodes : {10},
                     evaluation_num_workers : 0..MaxWorkers,
                     custom_eval_function : {FALSE},
                     create_env_on_driver : {FALSE}],
              s \in [evaluation_parallel_to_training : {TRUE}]}
    /\ config = validate_config(raw_config)
    /\ MergeIdle(FALSE)
    /\ MultiagentDefault
    /\ local_replay_buffer = NoBuffer
    /\ optimizer = [kind |-> "none", state |-> 0]
    /\ InitRest

\* With evaluation_parallel_to_training unset by _validate_config the step
\* is the one of TrainAttemptOk.
ParallelNext ==
    \/ TrainCall
    \/ ~config.evaluation_parallel_to_training /\ TrainAttemptOk
    \/ ParallelLaunch
    \/ ParallelStepBegins
    \/ ParallelStepEnds
    \/ ParallelEvalSave
    \/ ParallelEvalBroadcast
    \/ ParallelEvalSample
    \/ ParallelJoin
    \/ TrainReturn

ParallelSpec == ParallelInit /\ [][ParallelNext]_vars

\* ========================================================================
\* Properties
\* ========================================================================
TrainEnded == pc = "idle" /\ last_op = "train"

RecoverEnded == recover_outcome \in {"ok", "raised"}

\* The workers of the pool that _try_recover was called on, and how many of
\* them failed their probe.
PoolN == Len(hist.pool_before_recover)

FailedK == Cardinality(hist.probe_failed)

\* C1: in one call of train() the training step is attempted at most
\* 1 + MAX_WORKER_FAILURE_RETRIES = 4 times, and a successful attempt is the
\* last attempt of the call.
C1_AttemptsBounded ==
    /\ 1 + MAX_WORKER_FAILURE_RETRIES = 4
    /\ Len(attempt_log) <= 1 + MAX_WORKER_FAILURE_RETRIES
    /\ \A k \in 1..Len(attempt_log) :
          attempt_log[k] = "ok" => k = Len(attempt_log)
    /\ (attempt_log # <<>> /\ Last(attempt_log) = "ok") => pc # "attempt"

\* The fourth attempt of a call was made, it succeeded, and the call returned.
C1_Witness ==
    /\ Len(attempt_log) = 4
    /\ Last(attempt_log) = "ok"
    /\ TrainEnded
    /\ train_outcome = "returned"

AllAttemptsFailed ==
    /\ Len(attempt_log) = 1 + MAX_WORKER_FAILURE_RETRIES
    /\ \A k \in 1..Len(attempt_log) : attempt_log[k] = "RayError"

\* C2: with ignore_worker_failures on, a call of train() whose 1 + R attempts
\* all fail with a worker failure never returns a result: while it runs it
\* has no outcome, and it ends by raising the fatal RuntimeError.
C2_ExhaustedIsFatal ==
    (config.ignore_worker_failures /\ AllAttemptsFailed) =>
        /\ IsNone(result)
        /\ train_outcome \in {"running", "RuntimeError"}
        /\ pc = "idle" => train_outcome = "RuntimeError"

\* All four attempts failed, every recovery went through, and train() ended
\* with the error that is raised after the loop.
C2_Witness ==
    /\ config.ignore_worker_failures
    /\ AllAttemptsFailed
    /\ TrainEnded
    /\ recovers = 4
    /\ recover_outcome = "ok"
    /\ train_outcome = "RuntimeError"

\* C3: with ignore_worker_failures off, a worker failure of an attempt ends
\* train() at once with that failure: it was the only attempt, _try_recover
\* was not invoked, no worker was probed or sent a terminate request, and the
\* remote workers of the pool are those of the start of the call.
C3_NoToleranceSurfaces ==
    (~config.ignore_worker_failures /\ attempt_log # <<>>
        /\ Last(attempt_log) = "RayError") =>
        /\ pc = "idle"
        /\ train_outcome = "RayError"
        /\ attempt_log = <<"RayError">>
        /\ recovers = 0
        /\ recover_outcome = "none"
        /\ \A w \in RemoteIds : probe[w] = "none"
        /\ hist.probe_ok = {} /\ hist.probe_failed = {}
        /\ terminate_requested = {}
        /\ remote_workers = hist.pool_at_call
        /\ Len(remote_workers) = config.num_workers

\* A pool with remote workers, tolerance off, and the attempt failed with a
\* worker failure.
C3_Witness ==
    /\ ~config.ignore_worker_failures
    /\ config.num_workers >= 1
    /\ attempt_log = <<"RayError">>
    /\ TrainEnded

\* C4: a failure of an attempt that is not a worker failure ends train() in
\* the step in which it occurs, with or without ignore_worker_failures: no
\* further attempt, no invocation of _try_recover, no probe, no terminate
\* request, and the pool's remote workers stay as they are.
C4_OtherFailureAborts ==
    /\ []((attempt_log # <<>> /\ Last(attempt_log) = "Exception") =>
            (pc = "idle" /\ train_outcome = "Exception"))
    /\ [][(pc = "attempt" /\ attempt_log' = Append(attempt_log, "Exception"))
            => /\ pc' = "idle"
               /\ train_outcome' = "Exception"
               /\ recovers' = recovers
               /\ probe' = probe
               /\ terminate_requested' = terminate_requested
               /\ remote_workers' = remote_workers]_vars

\* With tolerance on, a later attempt (after a recovery) failed with a
\* failure that is not a worker failure.
C4_Witness ==
    /\ config.ignore_worker_failures
    /\ Len(attempt_log) >= 2
    /\ Last(attempt_log) = "Exception"
    /\ recovers >= 1
    /\ TrainEnded

\* C5: when _try_recover has ended on a pool of N >= 1 remote workers of
\* which K < N failed their probe, it has ended normally, the pool's remote
\* workers are exactly the workers whose probe succeeded, in their order
\* (N - K of them), and every worker whose probe failed has been sent a
\* terminate request and is not in the pool.
C5_RecoverKeepsHealthy ==
    (RecoverEnded /\ PoolN >= 1 /\ FailedK < PoolN) =>
        /\ recover_outcome = "ok"
        /\ remote_workers =
              SelectSeq(hist.pool_before_recover,
                        LAMBDA w : w \in hist.probe_ok)
        /\ Range(remote_workers) = hist.probe_ok
        /\ Len(remote_workers) = PoolN - FailedK
        /\ hist.probe_failed \subseteq terminate_requested
        /\ hist.probe_failed \cap Range(remote_workers) = {}
        /\ train_exec_impl = remote_workers

\* A recovery on two or more workers in which some probe failed and some
\* probe succeeded.
C5_Witness ==
    /\ recover_outcome = "ok"
    /\ PoolN >= 2
    /\ FailedK >= 1

\* C6: when no probe of _try_recover succeeded, it has raised (and so has
\* train()); whenever _try_recover ended normally the pool has at least
\* one remote worker.
C6_NoSurvivorIsFatal ==
    /\ (RecoverEnded /\ hist.probe_ok = {}) =>
          (recover_outcome = "raised" /\ train_outcome = "RuntimeError"
              /\ pc = "idle")
    /\ recover_outcome = "ok" => remote_workers # <<>>

\* Every worker of a pool of N >= 1 failed its probe and _try_recover raised.
C6_Witness ==
    /\ recover_outcome = "raised"
    /\ PoolN >= 1
    /\ hist.probe_failed = Range(hist.pool_before_recover)

\* The case of C7: tolerance on, attempt 1 failed with a worker failure, the
\* recovery went through, attempt 2 succeeded, and the call has ended.
C7_Case ==
    /\ config.ignore_worker_failures
    /\ attempt_log = <<"RayError", "ok">>
    /\ TrainEnded

\* C7 as stated: in that case train() returns the result of attempt 2 and
\* the pool has N - K remote workers.
C7_Original ==
    C7_Case =>
        /\ train_outcome = "returned"
        /\ result = StepResult(2, iteration)
        /\ Len(remote_workers) = Len(hist.pool_at_call) - FailedK

\* C7, amended: in that case the pool has N - K remote workers (K < N) when
\* train() ends; train() returns the result of attempt 2 unless the filter
\* synchronisation after the loop raises a worker failure, which can happen
\* only with observation filters on, and then train() raises it.
C7_RetryThenSuccess ==
    C7_Case =>
        /\ Len(remote_workers) = Len(hist.pool_at_call) - FailedK
        /\ FailedK < Len(hist.pool_at_call)
        /\ hist.pool_before_recover = hist.pool_at_call
        /\ recovers = 1
        /\ train_outcome \in {"returned", "RayError"}
        /\ train_outcome = "RayError" => FiltersEnabled(config)
        /\ train_outcome = "returned" => result = StepResult(2, iteration)

\* Attempt 1 failed, the recovery pruned a worker, attempt 2 succeeded and
\* train() returned.
C7_Witness ==
    /\ C7_Case
    /\ FailedK >= 1
    /\ train_outcome = "returned"

\* The await loop of _try_recover stands at a worker whose probe never
\* completes.
AwaitingLostProbe ==
    /\ pc = "recover_await"
    /\ check_idx <= Len(remote_workers)
    /\ probe[remote_workers[check_idx]] = "lost"

\* C8 as stated: a worker whose probe never answers is excluded like a failed
\* one and _try_recover still comes to its end (pool replaced without the
\* worker, or the fatal error).
C8_Original ==
    \A w \in RemoteIds :
        (pc = "recover_await" /\ probe[w] = "lost") ~>
            (RecoverEnded /\
                (recover_outcome = "ok" => w \notin Range(remote_workers)))

\* C8, amended: a worker whose probe failed with an error is not in the pool
\* after _try_recover; a probe that never answers is not treated as failed:
\* the await has no timeout, so _try_recover stays at that worker, and it
\* neither judges the worker, nor replaces the pool, nor raises.
C8_LostProbeBlocks ==
    /\ [](recover_outcome = "ok" =>
            hist.probe_failed \cap Range(remote_workers) = {})
    /\ [][AwaitingLostProbe =>
            /\ pc' = pc
            /\ check_idx' = check_idx
            /\ healthy_workers' = healthy_workers
            /\ terminate_requested' = terminate_requested
            /\ remote_workers' = remote_workers
            /\ recover_outcome' = "running"]_vars

\* The await loop has kept a healthy worker and stands at a worker whose
\* probe never completes.
C8_Witness ==
    /\ AwaitingLostProbe
    /\ healthy_workers # <<>>

LoadEnded == pc = "idle" /\ last_op = "load"

\* The worker state carried by the blob of the last restore.
RestoredWorker == WorkerRestore(restored.state["worker"])

\* C9 as stated: when load_checkpoint returns, the local worker and every
\* remote worker of the pool hold the worker state of the blob.
C9_Original ==
    LoadEnded =>
        /\ wstate[LocalWorker] = RestoredWorker
        /\ \A w \in Range(remote_workers) : wstate[w] = RestoredWorker

\* C9, amended: when load_checkpoint returns, the local worker holds the
\* worker state of the blob and a restore request carrying that same blob has
\* been sent to every remote worker of the pool, as the newest request in its
\* queue; a remote worker holds the state once it has handled the request,
\* which can be after load_checkpoint has returned.
C9_RestoreBroadcast ==
    LoadEnded =>
        /\ "worker" \in DOMAIN restored.state
        /\ wstate[LocalWorker] = RestoredWorker
        /\ \A w \in Range(remote_workers) :
              \/ /\ mailbox[w] # <<>>
                 /\ Last(mailbox[w]) = restored.state["worker"]
              \/ /\ mailbox[w] = <<>>
                 /\ wstate[w] = RestoredWorker

\* load_checkpoint has returned while a remote worker of the pool is still
\* in its pre-restore state, and another has already handled the request.
C9_Witness ==
    /\ LoadEnded
    /\ \E w \in Range(remote_workers) :
          mailbox[w] # <<>> /\ wstate[w] # RestoredWorker
    /\ \E w \in Range(remote_workers) :
          mailbox[w] = <<>> /\ wstate[w] = RestoredWorker

\* C10: when load_checkpoint(path) returns, the local worker's state is the
\* state it had when the checkpoint at that path was saved, with or without
\* the replay buffer in the checkpoint, whatever happened in between.
C10_RoundTrip ==
    (LoadEnded /\ restored.path # ForeignPath) =>
        /\ restored.path \in DOMAIN hist.saved_local
        /\ wstate[LocalWorker] = hist.saved_local[restored.path]

\* A checkpoint with replay-buffer state was restored after a training step
\* had changed the local worker since the save.
C10_Witness ==
    /\ LoadEnded
    /\ restored.path # ForeignPath
    /\ iteration > restored.path
    /\ "local_replay_buffer" \in DOMAIN restored.state

\* ------------------------------------------------------------------------
\* Checkpoint contents, restore warnings, failed restores
\* ------------------------------------------------------------------------
\* The dict stored in the checkpoint file at `path`
Bundle(path) == pickle_load(files[path])

LoadReturns ==
    pc = "idle" /\ pc' = "idle" /\ hist'.ops # hist.ops /\ last_op' = "load"

\* A step that is a whole load_checkpoint call which raised.
LoadRaises ==
    /\ pc = "idle" /\ pc' = "idle" /\ hist'.ops # hist.ops
    /\ last_op' = "load_failed"

\* The config asks for buffer state and the blob has none, or the reverse.
BufferDisagrees(state) ==
    config.store_buffer_in_checkpoints #
        ("local_replay_buffer" \in DOMAIN state)

\* C12 as stated: a restore logs a warning exactly when the config's request
\* for buffer state and the content of the blob disagree.
C12_Original ==
    LoadEnded => (warned # "none" <=> BufferDisagrees(restored.state))

\* C12, amended: a restore that completes logs a warning only with a replay
\* buffer attached: every time buffer state is requested and the blob has
\* none, and the first time in the process that the blob has buffer state
\* which is not requested.  It logs no warning in any other case; the buffer
\* is left as it was whenever request and blob disagree.
C12_RestoreWarning ==
    [][LoadReturns =>
          /\ warned' # "none" <=>
                /\ local_replay_buffer # NoBuffer
                /\ BufferDisagrees(restored'.state)
                /\ config.store_buffer_in_checkpoints
                      \/ OnceKey \notin logged_once
          /\ BufferDisagrees(restored'.state) =>
                local_replay_buffer' = local_replay_buffer]_vars

\* A restore has logged no warning although buffer state that was not
\* requested is in the blob: the warning was logged by an earlier restore.
C12_Witness ==
    /\ LoadEnded
    /\ warned = "none"
    /\ local_replay_buffer # NoBuffer
    /\ ~config.store_buffer_in_checkpoints
    /\ "local_replay_buffer" \in DOMAIN restored.state
    /\ OnceKey \in logged_once

EvalEnded == pc = "idle" /\ last_op = "evaluate"

EvalActive == eval_outcome.status = "running" \/ EvalEnded

EvalReturned == EvalEnded /\ eval_outcome.status = "returned"

EvalRaised == EvalEnded /\ eval_outcome.status = "raised"

\* The workers of the evaluation pool, and its remote workers.
EvalRemote == Range(evaluation_workers.remote_workers)

EvalPool == {LocalWorker} \cup EvalRemote

\* evaluate() has started sampling or has called the custom function.
EvalStarted ==
    "sample" \in Range(eval_log) \/ "custom" \in Range(eval_log)

\* C14: in an evaluate() with an evaluation pool, once a sampling call has
\* been issued or the custom evaluation function has been called, the weight
\* broadcast is complete: it was the first step of the call, no restore is
\* pending, and every worker of the evaluation pool, local and remote, holds
\* the weights of the primary local worker; the filter broadcast, when
\* filters are in use, is the step right after the weight broadcast.
C14_SyncBeforeSampling ==
    (EvalActive /\ evaluation_workers.exists
     /\ (EvalStarted \/ pc \in {"eval_run", "eval_round_await"})) =>
        /\ Len(eval_log) >= 1 /\ eval_log[1] = "weights"
        /\ \A w \in EvalRemote : eval_inflight[w] # "restore"
        /\ \A w \in EvalPool : eval_wstate[w] = wstate[LocalWorker]
        /\ FiltersEnabled(config) =>
              (Len(eval_log) >= 2 /\ eval_log[2] = "filters")
        /\ ~FiltersEnabled(config) => "filters" \notin Range(eval_log)

\* A round of sampling calls is out on two remote evaluation workers whose
\* weights were replaced, after a training step, by the broadcast.
C14_Witness ==
    /\ pc = "eval_round_await"
    /\ Cardinality(EvalRemote) = 2
    /\ FiltersEnabled(config)
    /\ iteration > 0
    /\ \A w \in EvalPool : eval_wstate[w] # 0

\* evaluate() on the branch of the remote evaluation workers.
RemoteRounds ==
    /\ evaluation_workers.exists
    /\ EvalRemote # {}
    /\ ~config.custom_eval_function

\* C15: with N >= 1 remote evaluation workers and a target of T episodes,
\* every round issues one sampling call on each remote evaluation worker and
\* the next round is issued only when all calls of the round have completed;
\* an evaluate() that returns has run the least number of rounds with
\* rounds * N >= T, i.e. ceil(T / N), and rounds * N calls on every worker
\* together (T = 10, N = 3: 4 rounds, 12 calls).
C15_Rounds ==
    /\ NumRounds(10, 3) = 4 /\ NumRounds(10, 3) * 3 = 12
    /\ (RemoteRounds /\ eval_outcome.status = "running") =>
          \A w \in EvalRemote :
              /\ pc = "eval_round_await" =>
                    /\ samples.eremote[w] = eval_round + 1
                    /\ eval_inflight[w] \in {"sample", "done", "failed"}
              /\ pc # "eval_round_await" =>
                    /\ samples.eremote[w] = eval_round
                    /\ eval_inflight[w] # "sample"
    /\ (RemoteRounds /\ EvalReturned) =>
          /\ eval_round * Cardinality(EvalRemote) >=
                config.evaluation_num_episodes
          /\ (eval_round - 1) * Cardinality(EvalRemote) <
                config.evaluation_num_episodes
          /\ \A w \in EvalRemote : samples.eremote[w] = eval_round
          /\ \A w \in RemoteIds \ EvalRemote : samples.eremote[w] = 0
          /\ samples.plocal = 0 /\ samples.elocal = 0

\* evaluate() has returned after two rounds on two workers for a target of
\* three episodes: four sampling calls.
C15_Witness ==
    /\ RemoteRounds /\ EvalReturned
    /\ Cardinality(EvalRemote) = 2
    /\ config.evaluation_num_episodes = 3
    /\ eval_round = 2

\* C16: with an evaluation pool without remote workers, an evaluate() that
\* returns has issued exactly T sampling calls, all of them on the local
\* worker of the evaluation pool, and while it runs it issues none on the
\* primary local worker.
C16_LocalEvalWorker ==
    (EvalActive /\ evaluation_workers.exists /\ EvalRemote = {}
     /\ ~config.custom_eval_function) =>
        /\ samples.plocal = 0
        /\ \A w \in RemoteIds : samples.eremote[w] = 0
        /\ samples.elocal <= config.evaluation_num_episodes
        /\ EvalReturned => samples.elocal = config.evaluation_num_episodes

\* evaluate() has returned after three episodes on the local worker of the
\* evaluation pool, with a primary local worker that has an env of its own.
C16_Witness ==
    /\ EvalReturned
    /\ evaluation_workers.exists /\ EvalRemote = {}
    /\ ~config.custom_eval_function
    /\ LocalHasEnv(config)
    /\ samples.elocal = 3

\* evaluate() on the branch of the primary local worker.
PrimaryLocal == ~evaluation_workers.exists /\ ~config.custom_eval_function

\* C17: without evaluation pool and custom function, an evaluate() that
\* returns has issued exactly T sampling calls, all on the primary local
\* worker; if that worker has no env, evaluate() raises the ValueError whose
\* message names the two remedies (an evaluation worker set, an env on the
\* driver); whatever else a sampling call raises is raised unchanged.
C17_PrimaryLocalWorker ==
    (EvalActive /\ PrimaryLocal) =>
        /\ samples.elocal = 0
        /\ \A w \in RemoteIds : samples.eremote[w] = 0
        /\ EvalReturned =>
              /\ samples.plocal = config.evaluation_num_episodes
              /\ LocalHasEnv(config)
        /\ (EvalEnded /\ ~LocalHasEnv(config)) =>
              /\ eval_outcome.status = "raised"
              /\ eval_outcome.exc.type = "ValueError"
              /\ eval_outcome.exc.msg[2] = "1) Set evaluation_interval >= 0"
              /\ eval_outcome.exc.msg[3] = "2) Set create_env_on_driver=True"
        /\ (EvalRaised /\ LocalHasEnv(config)) =>
              /\ eval_outcome.cause \in SampleErrors
              /\ eval_outcome.exc = eval_outcome.cause

\* evaluate() has raised the error that names the two remedies, on a
\* trainer with remote workers and no env on the driver.
C17_Witness ==
    /\ EvalRaised /\ PrimaryLocal
    /\ ~LocalHasEnv(config)
    /\ eval_outcome.exc.msg = CannotEvaluateMsg
    /\ samples.plocal = 1

\* C18: with a custom evaluation function, evaluate() issues no sampling
\* call, whatever the shape of the evaluation pool, and an evaluate() that
\* returns returns what the function returned.
C18_CustomReplacesDefault ==
    (EvalActive /\ config.custom_eval_function) =>
        /\ samples = NoSamples
        /\ "sample" \notin Range(eval_log)
        /\ \A w \in RemoteIds : eval_inflight[w] # "sample"
        /\ EvalReturned =>
              /\ "custom" \in Range(eval_log)
              /\ eval_result = [evaluation |-> eval_outcome.fn_result]
              /\ eval_outcome.fn_result.from = "custom"

\* evaluate() has returned the result of the custom function on a trainer
\* with remote evaluation workers.
C18_Witness ==
    /\ EvalReturned
    /\ config.custom_eval_function
    /\ EvalRemote # {}
    /\ eval_result.evaluation.from = "custom"

\* The custom function has returned something that is not a non-empty dict.
BadCustomResult ==
    /\ config.custom_eval_function
    /\ "custom" \in Range(eval_log)
    /\ eval_outcome.fn_result.size = 0 \/ ~eval_outcome.fn_result.is_dict

PolicyCallOk ==
    /\ pc = "idle"
    /\ last_op \in {"add_policy", "remove_policy"}
    /\ policy_outcome = "ok"

\* The policy ids of every worker of the primary pool and, if there is one,
\* of the evaluation pool.
AllPolicyMaps ==
    {policy_map.primary[w] : w \in {LocalWorker} \cup Range(remote_workers)}
    \cup (IF evaluation_workers.exists
          THEN {policy_map.evaluation[w] : w \in EvalPool} ELSE {})

PolicyCallRaised ==
    /\ pc = "idle"
    /\ last_op \in {"add_policy", "remove_policy"}
    /\ policy_outcome = "raised"

\* Worker w holds the mutation of the call.
Mutated(ids) ==
    IF policy_call.kind = "add_policy" THEN policy_call.id \in ids
    ELSE policy_call.id \notin ids

\* A step in which the broadcast to the workers of `pool` raises.
BroadcastRaises(pool) ==
    /\ pc = (IF pool = "primary" THEN "policy_primary"
             ELSE "policy_evaluation")
    /\ pc' = "idle"
    /\ policy_outcome' = "raised"

\* C21: when the broadcast of add_policy / remove_policy raises, the error
\* ends the call and nothing is rolled back: a worker that was not in the
\* state of the mutation before the step and is in it after the step keeps
\* it, every other worker of the pool is as it was, the local worker of the
\* pool is mutated unless it is itself the one that raised, and the pool
\* that was broadcast to earlier keeps the mutation on all its workers.
C21_NoRollback ==
    [][\A pool \in {"primary", "evaluation"} :
          BroadcastRaises(pool) =>
             /\ \A w \in DOMAIN policy_map[pool] :
                   policy_map'[pool][w] \in
                      {policy_map[pool][w],
                       WorkerPolicyApply(policy_call, policy_map[pool][w])}
             /\ ~WorkerPolicyRaises(policy_call, policy_map[pool][LocalWorker])
                   => policy_map'[pool][LocalWorker] =
                         WorkerPolicyApply(policy_call,
                                           policy_map[pool][LocalWorker])
             /\ pool = "evaluation" =>
                   /\ policy_map'.primary = policy_map.primary
                   /\ \A w \in {LocalWorker} \cup Range(remote_workers) :
                         Mutated(policy_map'.primary[w])
             /\ pool = "primary" =>
                   policy_map'.evaluation = policy_map.evaluation]_vars

\* add_policy has raised and left the workers apart: in the primary pool
\* the local worker and a remote worker hold the new id and another remote
\* worker does not, and no worker of the evaluation pool holds it.
C21_Witness ==
    /\ PolicyCallRaised
    /\ last_op = "add_policy"
    /\ policy_call.uniform_before
    /\ Mutated(policy_map.primary[LocalWorker])
    /\ \E w, v \in Range(remote_workers) :
          Mutated(policy_map.primary[w]) /\ ~Mutated(policy_map.primary[v])
    /\ evaluation_workers.exists
    /\ \A w \in EvalPool : ~Mutated(policy_map.evaluation[w])

\* ------------------------------------------------------------------------
\* Config merging (C22-C26)
\* ------------------------------------------------------------------------
\* A merge has been called.
MergeCalled == merge_call.fn # "none"

MergeOk == MergeCalled /\ merge_result.status = "ok"

\* The override of the last call holds a top-level key its base lacks.
HasUnknownKey == ~(DOMAIN merge_call.config2 \subseteq DOMAIN merge_call.config1)

\* Unknown keys were allowed in the last call: by the explicit argument,
\* which with_common_config sets, or else by the flag of the class.
UnknownAllowed ==
    \/ merge_call.arg = "True"
    \/ merge_call.arg = "None" /\ merge_call.cls_flag

\* C22: a merge whose override holds a top-level key that the base lacks
\* raises UnknownConfigKey and produces no merged config, unless unknown
\* keys are allowed by the class flag or by the explicit argument; any
\* other merge succeeds, and with_common_config always allows them.
C22_UnknownKeyRejected ==
    MergeCalled =>
       /\ (HasUnknownKey /\ ~UnknownAllowed) =>
             /\ merge_result.status = "UnknownConfigKey"
             /\ merge_result.config = NoTree
       /\ (~HasUnknownKey \/ UnknownAllowed) => merge_result.status = "ok"
       /\ merge_call.fn = "with_common_config" => merge_result.status = "ok"

\* A class that rejects unknown keys merged an override with my_key, with
\* no explicit argument, onto a base without it: the merge raised.
C22_Witness ==
    /\ merge_call.fn = "merge_trainer_configs"
    /\ merge_call.arg = "None" /\ ~merge_call.cls_flag
    /\ "my_key" \in DOMAIN merge_call.config2 \ DOMAIN merge_call.config1
    /\ merge_result.status = "UnknownConfigKey"

\* The last call merged an exploration_config of another type.
ExplorationTypeChanges ==
    /\ MergeOk
    /\ "exploration_config" \in DOMAIN merge_call.config1
    /\ "exploration_config" \in DOMAIN merge_call.config2
    /\ merge_call.config1["exploration_config"].kind = "dict"
    /\ merge_call.config2["exploration_config"].kind = "dict"
    /\ TypeChanges(merge_call.config1["exploration_config"].sub,
                   merge_call.config2["exploration_config"].sub)

\* C23: when the exploration_config of the override has another type than
\* the one of the base, the merged exploration_config is the override's,
\* field for field: no field that only the base had is left.
C23_TypeChangeReplaces ==
    ExplorationTypeChanges =>
       merge_result.config["exploration_config"] =
          merge_call.config2["exploration_config"]

\* The base had a field (random_timesteps) of the old type that the
\* override of the new type does not have.
C23_Witness ==
    /\ ExplorationTypeChanges
    /\ "random_timesteps" \in
          DOMAIN merge_call.config1["exploration_config"].sub
    /\ "random_timesteps" \notin
          DOMAIN merge_call.config2["exploration_config"].sub

\* C24: every top-level key of the base of a merge that succeeded is a key
\* of the merged config.
C24_BaseKeysKept ==
    MergeOk => DOMAIN merge_call.config1 \subseteq DOMAIN merge_result.config

\* A base that holds my_key was merged with an override that holds some
\* keys of the base but neither my_key nor num_workers.
C24_Witness ==
    /\ MergeOk
    /\ merge_call.fn = "merge_trainer_configs"
    /\ "my_key" \in DOMAIN merge_call.config1
    /\ merge_call.config2 # NoTree
    /\ DOMAIN merge_call.config2 \cap {"my_key", "num_workers"} = {}

\* merge(result, o2) where result is what an earlier merge gave: a merge
\* that raised gives no config to merge onto.
AfterMerge(first, o2) ==
    IF first.status = "ok"
    THEN merge_trainer_configs(first.config, o2, merge_call.arg,
                               merge_call.cls_flag)
    ELSE first

\* The overrides that share no top-level key with the last override.
DisjointOverrides ==
    {o2 \in Overrides : DOMAIN o2 \cap DOMAIN merge_call.config2 = {}}

\* C25: merging o1 and then an override o2 with no key of o1 gives what
\* merging the union of o1 and o2 gives (the same config, or an error in
\* both cases).
C25_DisjointMerges ==
    MergeCalled =>
       \A o2 \in DisjointOverrides :
          AfterMerge(merge_result, o2) =
             merge_trainer_configs(merge_call.config1,
                                   o2 @@ merge_call.config2,
                                   merge_call.arg, merge_call.cls_flag)

\* An override with a scalar was merged, and a disjoint override with
\* legacy callbacks and an exploration_config can be merged after it and
\* changes the config.
C25_Witness ==
    /\ MergeOk
    /\ DOMAIN merge_call.config2 = {"num_workers"}
    /\ \E o2 \in DisjointOverrides :
          /\ DOMAIN o2 = {"callbacks", "exploration_config"}
          /\ IsLegacyCallbacks(o2)
          /\ AfterMerge(merge_result, o2).status = "ok"
          /\ AfterMerge(merge_result, o2).config # merge_result.config

\* C26: when the override holds callbacks as a legacy dict, the merged
\* config holds under callbacks the zero-argument function that builds the
\* callbacks from that dict; no merged config holds a dict there.
C26_LegacyCallbacksWrapped ==
    MergeOk =>
       /\ merge_result.config["callbacks"].kind # "dict"
       /\ IsLegacyCallbacks(merge_call.config2) =>
             merge_result.config["callbacks"] =
                make_callbacks(merge_call.config2["callbacks"].sub)

\* A merge of legacy callbacks succeeded.
C26_Witness ==
    /\ MergeOk
    /\ IsLegacyCallbacks(merge_call.config2)
    /\ merge_result.config["callbacks"].kind = "function"

\* ------------------------------------------------------------------------
\* Resources and evaluation pool (C27-C29)
\* ------------------------------------------------------------------------
\* C27: the resource request holds one driver bundle, one bundle for each
\* of the num_workers remote workers and, when evaluation_num_workers > 0,
\* one bundle for each evaluation worker, and no other bundle.
C27_Bundles ==
    resource_request.requested =>
       /\ Len(resource_request.bundles) =
             1 + raw_config.num_workers + raw_config.evaluation_num_workers
       /\ resource_request.bundles[1] =
             [CPU |-> raw_config.num_cpus_for_driver,
              GPU |-> raw_config.num_gpus]

\* The workers that setup() has built, in both pools.
InstantiatedWorkers ==
    Len(remote_workers) + Len(evaluation_workers.remote_workers)

\* C28: the number of per-worker bundles of the resource request is the
\* number of remote workers that setup() builds in the primary and in the
\* evaluation pool.
C28_BundlesMatchWorkers ==
    resource_request.requested =>
       Len(resource_request.bundles) - 1 = InstantiatedWorkers

\* C29: when there is an evaluation pool, the config its workers are built
\* with has the batch mode complete_episodes and in_evaluation set.
C29_EvaluationMode ==
    evaluation_workers.exists =>
       /\ evaluation_config.built
       /\ evaluation_config.config.batch_mode = "complete_episodes"
       /\ evaluation_config.config.in_evaluation

\* There is an evaluation pool with remote workers, and both the config
\* and its evaluation_config ask for truncate_episodes.
C29_Witness ==
    /\ evaluation_workers.exists
    /\ Len(evaluation_workers.remote_workers) > 0
    /\ raw_config.batch_mode = "truncate_episodes"
    /\ raw_config.evaluation_config.batch_mode = "truncate_episodes"
    /\ raw_config.evaluation_config.in_evaluation = Unset
    /\ evaluation_config.config.batch_mode = "complete_episodes"

\* ------------------------------------------------------------------------
\* Filter synchronization of train() (C30)
\* ------------------------------------------------------------------------
\* train() has returned its result.
TrainReturned == pc = "idle" /\ last_op = "train" /\ train_outcome = "returned"

\* C30: when train() returns after a successful step, the filters of the
\* local worker have been pushed to every remote worker of the pool as it
\* is then, if observation filters are on and synchronize_filters is set;
\* with NoFilter, FilterManager.synchronize has not been called and nothing
\* has been pushed.
C30_FilterBroadcast ==
    TrainReturned =>
       /\ (config.observation_filter # "NoFilter"
           /\ config.synchronize_filters) =>
             /\ filter_sync.called
             /\ filter_sync.pushed = Range(remote_workers)
       /\ config.observation_filter = "NoFilter" =>
             /\ ~filter_sync.called
             /\ filter_sync.pushed = {}

\* train() has returned after a recovery that shrank the pool, and the
\* filters were pushed to the workers that are left.
C30_Witness ==
    /\ TrainReturned
    /\ config.observation_filter # "NoFilter"
    /\ config.synchronize_filters
    /\ remote_workers # <<>>
    /\ Len(remote_workers) < config.num_workers
    /\ filter_sync.pushed = Range(remote_workers)

\* ------------------------------------------------------------------------
\* Validation of the multiagent policies (C31)
\* ------------------------------------------------------------------------
\* The policies were given as a dict and one of its values is neither a
\* PolicySpec nor a list or tuple of exactly 4 fields.
HasMalformedEntry ==
    /\ multiagent.form = "dict"
    /\ \E i \in 1..Len(multiagent.given) :
          /\ multiagent.given[i].kind # "PolicySpec"
          /\ ~(multiagent.given[i].kind \in {"list", "tuple"}
               /\ multiagent.given[i].len = 4)

\* C31: _validate_config raises, and setup() does not complete, when a
\* value of the policies dict is neither a PolicySpec nor a list or tuple
\* of exactly 4 fields; when it returns, every value of the policies dict
\* is a PolicySpec of 4 fields whose config is a dict; setup() completes
\* only after it has returned.
C31_PolicySpecs ==
    /\ (multiagent.validated # "none" /\ HasMalformedEntry) =>
          multiagent.validated = "ValueError" /\ ~multiagent.setup
    /\ multiagent.validated = "ok" =>
          /\ Len(multiagent.policies) >= 1
          /\ \A i \in 1..Len(multiagent.policies) :
                /\ multiagent.policies[i].kind = "PolicySpec"
                /\ multiagent.policies[i].len = 4
                /\ multiagent.policies[i].config = "dict"
    /\ multiagent.setup => multiagent.validated = "ok"

\* _validate_config has raised on a dict whose first value is a tuple of 4
\* fields and whose second value is a list of 5 fields.
C31_Witness ==
    /\ multiagent.validated = "ValueError"
    /\ Len(multiagent.given) = 2
    /\ multiagent.given[1].kind = "tuple" /\ multiagent.given[1].len = 4
    /\ multiagent.given[1].config = "None"
    /\ multiagent.given[1].pid_is_str /\ multiagent.given[2].pid_is_str
    /\ multiagent.given[2].kind = "list" /\ multiagent.given[2].len = 5
    /\ multiagent.policies[1].kind = "PolicySpec"

\* ------------------------------------------------------------------------
\* Evaluation parallel to training (C32)
\* ------------------------------------------------------------------------
\* C32: the weights that an evaluation round of a parallel evaluation has
\* consumed were read from the primary local worker while no training step
\* was updating it.
C32_CommittedWeights ==
    parallel.thread = "sampled" => ~parallel.weights.mid_step

\* ------------------------------------------------------------------------
\* Probes of _try_recover (C33)
\* ------------------------------------------------------------------------
\* The workers whose probe _try_recover has judged so far.
Judged == hist.probe_ok \cup hist.probe_failed

\* C33: while _try_recover awaits the probes, a probe has been issued to
\* every remote worker of the pool, the first await included; the probes
\* are judged one worker at a time in the order of the pool; and when
\* _try_recover has ended every worker of the pool has been judged, whatever
\* probes failed.
C33_ProbesFanOut ==
    /\ pc = "recover_await" =>
          /\ \A w \in Range(remote_workers) : probe[w] # "none"
          /\ Judged = {remote_workers[k] : k \in 1..(check_idx - 1)}
          /\ check_idx <= Len(remote_workers) + 1
    /\ (RecoverEnded /\ pc # "recover_await") =>
          Judged = Range(hist.pool_before_recover)

\* The probe of the first worker of the pool failed and the probe of the
\* second one was judged healthy after it.
C33_Witness ==
    /\ recover_outcome = "ok"
    /\ PoolN >= 2
    /\ hist.pool_before_recover[1] \in hist.probe_failed
    /\ hist.pool_before_recover[2] \in hist.probe_ok

\* ------------------------------------------------------------------------
\* Pool replacement of _try_recover (C34)
\* ------------------------------------------------------------------------
\* C34: while _try_recover is judging the probes the pool still holds all
\* the workers it was called on, unhealthy ones included; once it has ended
\* normally the pool holds exactly the survivors and the execution plan is
\* the one built over them; every training attempt runs the plan built over
\* the pool as it is then.
C34_AtomicReplace ==
    /\ pc = "recover_await" =>
          /\ remote_workers = hist.pool_before_recover
          /\ train_exec_impl = hist.pool_before_recover
    /\ (recover_outcome = "ok" /\ hist.probe_ok # {}) =>
          /\ remote_workers =
                SelectSeq(hist.pool_before_recover,
                          LAMBDA w : w \in hist.probe_ok)
          /\ train_exec_impl = remote_workers
    /\ pc = "attempt" => train_exec_impl = remote_workers

\* The next attempt after a recovery that removed a worker: the plan is
\* over the shrunken pool.
C34_Witness ==
    /\ pc = "attempt"
    /\ recover_outcome = "ok"
    /\ FailedK >= 1
    /\ Len(remote_workers) = PoolN - FailedK
    /\ train_exec_impl = remote_workers

\* ------------------------------------------------------------------------
\* The primary pool under every operation of the Trainer (C35)
\* ------------------------------------------------------------------------
\* Trainers with a remote primary pool, one remote evaluation worker and
\* observation filters, failure tolerance on or off.
PoolInit ==
    /\ raw_config \in
          {t @@ e @@ DefaultSetupKeys :
              t \in TrainKeys({MaxWorkers}, BOOLEAN,
                              {"MeanStdFilter"}, {FALSE}),
              e \in [evaluation_interval : {1},
                     evaluation_num_episodes : {1},
                     evaluation_num_workers : {1},
                     custom_eval_function : {FALSE},
                     create_env_on_driver : {FALSE}]}
    /\ config = validate_config(raw_config)
    /\ MergeIdle(FALSE)
    /\ MultiagentDefault
    /\ local_replay_buffer = NoBuffer
    /\ optimizer = [kind |-> "none", state |-> 0]
    /\ InitRest

\* train() with its recoveries, save and restore, evaluate(), add_policy
\* and remove_policy of one policy, in any order, and what the workers do
\* meanwhile; a policy broadcast fails at every remote worker or at none.
PoolNext ==
    \/ CoordinatorStep
    \/ \E w \in RemoteIds : WorkerStep(w)
    \/ \E w \in RemoteIds : ProbeOutcome(w, "err")
    \/ EvaluateCall
    \/ EvalSyncWeightsIssue
    \/ EvalSyncWeightsAwait
    \/ EvalSyncFilters
    \/ EvalRoundIssue
    \/ EvalRoundAwait
    \/ EvalRoundRaises
    \/ EvalRoundsDone
    \/ \E w \in RemoteIds : EvalWorkerRestore(w)
    \/ \E w \in RemoteIds, how \in {"done", "failed"} : EvalWorkerSample(w, how)
    \/ \E kind \in {"add_policy", "remove_policy"} :
          PolicyCall(kind, "new_policy")
    \/ \E failing \in {{}, Range(remote_workers)} :
          PolicyBroadcastPrimary(failing)
    \/ \E failing \in {{}, Range(evaluation_workers.remote_workers)} :
          PolicyBroadcastEvaluation(failing)

PoolSpec == PoolInit /\ [][PoolNext]_vars

\* C35: whatever operation runs, a step that changes the remote workers of
\* the primary pool is the reset of a running _try_recover, and it only
\* removes workers; the pool always holds workers created at setup, the
\* local worker is not among the workers that can be removed.
C35_PoolChangesOnlyInRecover ==
    [][/\ Range(remote_workers) \subseteq 1..config.num_workers
       /\ Range(remote_workers') \subseteq 1..config.num_workers
       /\ LocalWorker \notin Range(remote_workers')
       /\ Len(remote_workers') <= Len(remote_workers)
       /\ remote_workers' # remote_workers =>
             /\ pc = "recover_await"
             /\ recover_outcome = "running"
             /\ recover_outcome' = "ok"
             /\ Range(remote_workers') \subseteq Range(remote_workers)]_vars

\* A trainer that has evaluated and changed its policies and whose pool a
\* recovery of a later train() has shrunk.
C35_Witness ==
    /\ eval_outcome.status # "none"
    /\ policy_outcome # "none"
    /\ recover_outcome = "ok"
    /\ Len(remote_workers) < config.num_workers

\* ------------------------------------------------------------------------
\* Recoveries of one train() call (C36)
\* ------------------------------------------------------------------------
WorkerFailures ==
    Cardinality({k \in 1..Len(attempt_log) : attempt_log[k] = "RayError"})

\* train() ended with the error raised after the loop, not with the error
\* of a recovery.
RetriesExhausted ==
    /\ TrainEnded
    /\ train_outcome = "RuntimeError"
    /\ recover_outcome # "raised"

\* C36: with ignore_worker_failures on, _try_recover has been invoked once
\* for every attempt of the call that failed with a worker failure (the
\* invocation for the latest one may be about to start), the last permitted
\* attempt included: a train() that ends with the error raised after the
\* loop has made 1 + R attempts and 1 + R recoveries.
C36_RecoverAfterEveryFailure ==
    /\ (config.ignore_worker_failures /\ train_outcome # "none") =>
          recovers = WorkerFailures - (IF pc = "recover" THEN 1 ELSE 0)
    /\ RetriesExhausted =>
          /\ config.ignore_worker_failures
          /\ Len(attempt_log) = 1 + MAX_WORKER_FAILURE_RETRIES
          /\ recovers = 1 + MAX_WORKER_FAILURE_RETRIES
          /\ recover_outcome = "ok"

\* The retries are exhausted and the recoveries of the call have removed a
\* worker from the pool.
C36_Witness ==
    /\ RetriesExhausted
    /\ recovers = 1 + MAX_WORKER_FAILURE_RETRIES
    /\ Len(remote_workers) < Len(hist.pool_at_call)

\* ------------------------------------------------------------------------
\* A recovery without survivors (C37)
\* ------------------------------------------------------------------------
\* C37: when _try_recover has raised, every probe had failed; the pool
\* still lists the workers it listed when _try_recover was called, each of
\* them has been asked to terminate, the execution plan is the one of
\* before; train() has ended with that error, the failed attempt that led
\* to the recovery being its last.
C37_RaiseLeavesPool ==
    recover_outcome = "raised" =>
        /\ hist.probe_ok = {}
        /\ hist.probe_failed = Range(hist.pool_before_recover)
        /\ remote_workers = hist.pool_before_recover
        /\ Range(remote_workers) \subseteq terminate_requested
        /\ train_exec_impl = hist.pool_before_recover
        /\ pc = "idle"
        /\ train_outcome = "RuntimeError"
        /\ Last(attempt_log) = "RayError"
        /\ recovers = Len(attempt_log)

\* The first recovery of a call on a pool of two or more workers raised:
\* retries were left.
C37_Witness ==
    /\ recover_outcome = "raised"
    /\ PoolN >= 2
    /\ Len(remote_workers) = PoolN
    /\ recovers = 1

\* ------------------------------------------------------------------------
\* A local-only pool (C38)
\* ------------------------------------------------------------------------
\* The call of train() runs on a pool without remote workers, with
\* ignore_worker_failures on, and its first attempt failed with a worker
\* failure.
LocalOnlyFailure ==
    /\ config.ignore_worker_failures
    /\ train_outcome # "none"
    /\ hist.pool_at_call = <<>>
    /\ attempt_log # <<>>
    /\ attempt_log[1] = "RayError"

\* C38: on a pool without remote workers, with ignore_worker_failures on, a
\* worker failure of the first attempt leads to _try_recover, which raises
\* for want of healthy workers; train() ends with that error and the failed
\* attempt stays the only attempt of the call.
C38_LocalOnlyFails ==
    LocalOnlyFailure =>
        /\ Len(attempt_log) = 1
        /\ pc \in {"recover", "recover_await", "idle"}
        /\ pc = "recover" => recover_outcome = "none"
        /\ pc = "recover_await" => recover_outcome = "running"
        /\ pc = "idle" =>
              /\ recover_outcome = "raised"
              /\ train_outcome = "RuntimeError"
              /\ recovers = 1
              /\ IsNone(result)

\* train() has ended so on a trainer built with num_workers = 0.
C38_Witness ==
    /\ LocalOnlyFailure
    /\ config.num_workers = 0
    /\ TrainEnded
    /\ recover_outcome = "raised"

\* ------------------------------------------------------------------------
\* A failure of the filter synchronisation (C39)
\* ------------------------------------------------------------------------
\* C39: once an attempt has succeeded, the call makes no further attempt
\* and enters no recovery; with ignore_worker_failures on, a train() that
\* ends with a worker failure has failed in the synchronisation of the
\* filters that follows the successful attempt: the failure has left
\* train() as it was raised, _try_recover has run only for the attempts
\* that failed before, and the result of the successful attempt, though
\* computed, has not been returned.
C39_SyncFailurePropagates ==
    /\ (attempt_log # <<>> /\ Last(attempt_log) = "ok") =>
          /\ pc \in {"after_loop", "idle"}
          /\ recovers = WorkerFailures
          /\ recover_outcome # "running"
    /\ (config.ignore_worker_failures /\ train_outcome = "RayError") =>
          /\ pc = "idle"
          /\ Last(attempt_log) = "ok"
          /\ ~IsNone(result)
          /\ FiltersEnabled(config)
          /\ filter_sync.called
          /\ filter_sync.pushed = {}

\* The first attempt succeeded, the synchronisation of the filters failed,
\* and train() has ended with the worker failure although failures are to
\* be ignored and retries were left.
C39_Witness ==
    /\ config.ignore_worker_failures
    /\ TrainEnded
    /\ train_outcome = "RayError"
    /\ attempt_log = <<"ok">>
    /\ recovers = 0
    /\ ~IsNone(result)

\* ------------------------------------------------------------------------
\* Termination of train() (C40)
\* ------------------------------------------------------------------------
\* Every remote call comes to an end: a probe is answered or fails, none is
\* left unanswered.
LiveNext ==
    \/ CoordinatorStep
    \/ \E w \in RemoteIds : WorkerStep(w)
    \/ \E w \in RemoteIds : ProbeOutcome(w, "err")

\* The coordinator and the workers keep taking the steps they can take.
\* Trainers without remote workers and with a full pool, failure tolerance
\* on or off, with and without observation filters.
LiveInit ==
    /\ raw_config \in {t @@ DefaultEvalKeys @@ DefaultSetupKeys :
                          t \in TrainKeys({0, MaxWorkers}, BOOLEAN,
                                          {"NoFilter", "MeanStdFilter"},
                                          {FALSE})}
    /\ config = validate_config(raw_config)
    /\ MergeIdle(FALSE)
    /\ MultiagentDefault
    /\ local_replay_buffer = NoBuffer
    /\ optimizer = [kind |-> "none", state |-> 0]
    /\ InitRest

LiveSpec ==
    /\ LiveInit
    /\ [][LiveNext]_vars
    /\ WF_vars(CoordinatorStep)
    /\ \A w \in RemoteIds : WF_vars(WorkerStep(w))

\* C40: when every attempt and every remote call comes to an end, a call of
\* train() ends, with a result or with an error, and it makes at most
\* 1 + R attempts and at most 1 + R recoveries.
C40_TrainTerminates ==
    /\ [](/\ Len(attempt_log) <= 1 + MAX_WORKER_FAILURE_RETRIES
          /\ recovers <= 1 + MAX_WORKER_FAILURE_RETRIES)
    /\ (train_outcome = "running") ~>
          (/\ pc = "idle"
           /\ train_outcome \in {"returned", "RuntimeError", "RayError",
                                 "Exception"})

\* A call that has used all its attempts and all its recoveries has ended.
C40_Witness ==
    /\ TrainEnded
    /\ train_outcome # "running"
    /\ Len(attempt_log) = 1 + MAX_WORKER_FAILURE_RETRIES
    /\ recovers = 1 + MAX_WORKER_FAILURE_RETRIES
    /\ terminate_requested # {}

====
